---- MODULE Spec2Model ----
(***************************************************************************)
(* A model of iocage_lib/ioc_json.py (class IOCJson): loading a jail's     *)
(* config.json, the upgrade ladder json_check_config and the uuid-to-tag   *)
(* migration json_migrate_uuid_to_tag.                                     *)
(*                                                                         *)
(* A configuration record is a function from the keys it holds to string   *)
(* values.  Python exceptions are modelled as the outcome of an operation: *)
(* "returned" or the name of what was raised.                              *)
(***************************************************************************)
EXTENDS Integers, Sequences, FiniteSets, TLC

VARIABLES
    root,         \* os.geteuid() == 0
    stop,         \* self.stop, the stop-first policy given to __init__
    force,        \* self.force, from IOCAGE_FORCE
    running,      \* names n for which `jls -j ioc-n` reports a running jail
    markers,      \* existing .../root/bin/freebsd-version files
    cfg,          \* config.json of each directory <iocroot>/jails/<name>
    fstab,        \* fstab of each directory <iocroot>/jails/<name>
    ds,           \* names n whose dataset tree <pool>/iocage/jails/<n> exists
    snaps,        \* snapshots <<n, s>>: <pool>/iocage/jails/<n>@<s>
    flat,         \* the lines of the legacy file <location>/config, if any
    props,        \* the properties of the jail's dataset, as enumerated
    loaded,       \* self.loaded
    mem,          \* the dict content of the IOCJson object
    location,     \* self.location, as the name of the directory under jails/
    op,           \* the operation invoked last
    out,          \* its outcome: "returned" or the exception raised
    arg,          \* the record it was given (json_load: the record on disk)
    ret,          \* the record it returned or, when it raised, left behind
    flags,        \* the results it returned besides the record
    calls,        \* what it persisted: storage calls and file writes, in order
    via,          \* the importers it entered and the legacy sources it read
    fresh,        \* self.loaded was False when it was invoked
    pending,      \* an upgrade has returned early for a running jail
    retry,        \* it was invoked while pending, with the jail not running
    disk,         \* the text of config.json and of open_atomic's file
    writer,       \* the json_write in progress, if any
    seen,         \* what the last json_read of config.json gave
    cli,          \* self.cli, the caller is the command line
    prop,         \* the key and the value given to the last operation
    sets,         \* the calls of json_set_value and json_check_prop so far
    tds,          \* names n whose dataset <pool>/iocage/templates/<n> exists
    zpools        \* list(self.zfs.pools), each pool with its properties

\* The jail, its storage and the IOCJson object.
jail == <<root, stop, force, running, markers, cfg, fstab, ds, snaps, flat,
          props, loaded, mem, location, op, out, arg, ret, flags, calls, via,
          fresh, pending, retry>>

\* The text of the jail's config.json, its writer and its reader.
textfile == <<disk, writer, seen>>

\* The caller's side of json_set_value, and the pools of the host.
host == <<cli, prop, sets, tds, zpools>>

vars == <<jail, textfile, host>>

(***************************************************************************)
(* Bounds of the model.                                                    *)
(***************************************************************************)
\* Nested json_load calls the interpreter allows before RecursionError.
MaxDepth == 3

\* json_set_value and json_check_prop calls on one object.
MaxSets == 1

\* Pools of the host.
MaxPools == 2

(***************************************************************************)
(* Strings.  Values are TLA+ strings; Chars gives the characters of the    *)
(* ones the code looks into (strptime, rsplit, slicing).                   *)
(***************************************************************************)
CONFIG_VERSION == "14"

UUID == "0c1a2b3c-aaaa-bbbb-cccc-1234567890ab"
HostId == "a1b2c3d4"
TagName == "web"
DateTag == "2019-01-02@03:04:05:000000"
DateTagLegacy == "2019-01-02@03:04:05"
NoDateTag == "2019-13-02@03:04:05"
HostName == "myhost"
CloneName == "clone1"
PoolName == "tank"

\* The one value of a set of one value.
The(S) == CHOOSE x \in S : TRUE

\* No value, no record, no results.
None == "<none>"
NoRecord == [k \in {None} |-> None]
NoFlags == <<>>

Chars(s) ==
    CASE s = "0c1a2b3c-aaaa-bbbb-cccc-1234567890ab" ->
           <<"0","c","1","a","2","b","3","c","-","a","a","a","a","-",
             "b","b","b","b","-","c","c","c","c","-",
             "1","2","3","4","5","6","7","8","9","0","a","b">>
      [] s = "a1b2c3d4" -> <<"a","1","b","2","c","3","d","4">>
      [] s = "web" -> <<"w","e","b">>
      [] s = "myhost" -> <<"m","y","h","o","s","t">>
      [] s = "2019-01-02@03:04:05:000000" ->
           <<"2","0","1","9","-","0","1","-","0","2","@","0","3",":",
             "0","4",":","0","5",":","0","0","0","0","0","0">>
      [] s = "2019-01-02@03:04:05" ->
           <<"2","0","1","9","-","0","1","-","0","2","@","0","3",":",
             "0","4",":","0","5">>
      [] s = "2019-13-02@03:04:05" ->
           <<"2","0","1","9","-","1","3","-","0","2","@","0","3",":",
             "0","4",":","0","5">>
      [] s = "11.2-RELEASE-p4" ->
           <<"1","1",".","2","-","R","E","L","E","A","S","E","-","p","4">>
      [] s = "11.2-RELEASE" ->
           <<"1","1",".","2","-","R","E","L","E","A","S","E">>
      [] s = "9.3-RELEASE" ->
           <<"9",".","3","-","R","E","L","E","A","S","E">>
      [] s = "12.0-RELEASE-p3" ->
           <<"1","2",".","0","-","R","E","L","E","A","S","E","-","p","3">>
      [] s = "12.0-RELEASE" ->
           <<"1","2",".","0","-","R","E","L","E","A","S","E">>
      [] s = "release" -> <<"r","e","l","e","a","s","e">>
      [] s = "host_hostuuid" ->
           <<"h","o","s","t","_","h","o","s","t","u","u","i","d">>
      [] s = "host_hostname" ->
           <<"h","o","s","t","_","h","o","s","t","n","a","m","e">>
      [] s = "# legacy" -> <<"#"," ","l","e","g","a","c","y">>
      [] s = "quota" ->
           <<"q","u","o","t","a">>
      [] s = "compression" ->
           <<"c","o","m","p","r","e","s","s","i","o","n">>
      [] s = "boot" ->
           <<"b","o","o","t">>
      [] s = "allow_mlock" ->
           <<"a","l","l","o","w","_","m","l","o","c","k">>
      [] s = "priority" ->
           <<"p","r","i","o","r","i","t","y">>
      [] s = "dhcp" ->
           <<"d","h","c","p">>
      [] s = "jail_zfs_dataset" ->
           <<"j","a","i","l","_","z","f","s","_","d","a","t","a","s","e",
             "t">>
      [] s = "jail_zfs" ->
           <<"j","a","i","l","_","z","f","s">>
      [] s = "template" ->
           <<"t","e","m","p","l","a","t","e">>
      [] s = "notes" ->
           <<"n","o","t","e","s">>
      [] s = "vnet0_mac" ->
           <<"v","n","e","t","0","_","m","a","c">>
      [] s = "allow_raw_sockets" ->
           <<"a","l","l","o","w","_","r","a","w","_","s","o","c","k","e",
             "t","s">>
      [] s = "allow_mount_zfs" ->
           <<"a","l","l","o","w","_","m","o","u","n","t","_","z","f","s">>
      [] s = "vnet" ->
           <<"v","n","e","t">>
      [] s = "ip4_addr" ->
           <<"i","p","4","_","a","d","d","r">>
      [] s = "foo" ->
           <<"f","o","o">>
      [] s = "type" ->
           <<"t","y","p","e">>
      [] s = "allow.mlock" ->
           <<"a","l","l","o","w",".","m","l","o","c","k">>
      [] s = "jail.zfs.dataset" ->
           <<"j","a","i","l",".","z","f","s",".","d","a","t","a","s","e",
             "t">>
      [] s = "jail.zfs" ->
           <<"j","a","i","l",".","z","f","s">>
      [] s = "vnet0.mac" ->
           <<"v","n","e","t","0",".","m","a","c">>
      [] s = "host.hostname" ->
           <<"h","o","s","t",".","h","o","s","t","n","a","m","e">>
      [] s = "allow.raw_sockets" ->
           <<"a","l","l","o","w",".","r","a","w","_","s","o","c","k","e",
             "t","s">>
      [] s = "allow.mount.zfs" ->
           <<"a","l","l","o","w",".","m","o","u","n","t",".","z","f","s">>
      [] s = "ip4.addr" ->
           <<"i","p","4",".","a","d","d","r">>
      [] s = "10G" ->
           <<"1","0","G">>
      [] s = "10g" ->
           <<"1","0","g">>
      [] s = "10X" ->
           <<"1","0","X">>
      [] s = "none" ->
           <<"n","o","n","e">>
      [] s = "lz4" ->
           <<"l","z","4">>
      [] s = "on" ->
           <<"o","n">>
      [] s = "off" ->
           <<"o","f","f">>
      [] s = "maybe" ->
           <<"m","a","y","b","e">>
      [] s = "1" ->
           <<"1">>
      [] s = "10" ->
           <<"1","0">>
      [] s = "2" ->
           <<"2">>
      [] s = "5" ->
           <<"5">>
      [] s = "100" ->
           <<"1","0","0">>
      [] s = "x" ->
           <<"x">>
      [] s = "yes" ->
           <<"y","e","s">>
      [] s = "no" ->
           <<"n","o">>
      [] s = "hello" ->
           <<"h","e","l","l","o">>
      [] s = "bar" ->
           <<"b","a","r">>
      [] s = "jail" ->
           <<"j","a","i","l">>
      [] s = "0" ->
           <<"0">>
      [] s = "string" ->
           <<"s","t","r","i","n","g">>
      [] s = ":" ->
           <<":">>
      [] s = "," ->
           <<",">>
      [] s = "new" ->
           <<"n","e","w">>
      [] s = "inherit" ->
           <<"i","n","h","e","r","i","t">>
      [] s = "disable" ->
           <<"d","i","s","a","b","l","e">>
      [] s = "iocage/jails/web/data" ->
           <<"i","o","c","a","g","e","/","j","a","i","l","s","/","w","e",
             "b","/","d","a","t","a">>
      [] s = "em0|10.0.0.2" ->
           <<"e","m","0","|","1","0",".","0",".","0",".","2">>
      [] s = "DEFAULT|10.0.0.2" ->
           <<"D","E","F","A","U","L","T","|","1","0",".","0",".","0",".",
             "2">>
      [] s = "em0" ->
           <<"e","m","0">>
      [] s = "DEFAULT" ->
           <<"D","E","F","A","U","L","T">>
      [] s = "10.0.0.2" ->
           <<"1","0",".","0",".","0",".","2">>
      [] s = "02:ff:60:00:01:01" ->
           <<"0","2",":","f","f",":","6","0",":","0","0",":","0","1",":",
             "0","1">>
      [] s = "02:ff:60:00:01:02" ->
           <<"0","2",":","f","f",":","6","0",":","0","0",":","0","1",":",
             "0","2">>
      [] s = "02ff60000103" ->
           <<"0","2","f","f","6","0","0","0","0","1","0","3">>
      [] s = "02:ff:60:00:01:01,02:ff:60:00:01:02" ->
           <<"0","2",":","f","f",":","6","0",":","0","0",":","0","1",":",
             "0","1",",","0","2",":","f","f",":","6","0",":","0","0",":",
             "0","1",":","0","2">>
      [] s = "02:ff:60:00:01:01 02:ff:60:00:01:02" ->
           <<"0","2",":","f","f",":","6","0",":","0","0",":","0","1",":",
             "0","1"," ","0","2",":","f","f",":","6","0",":","0","0",":",
             "0","1",":","0","2">>
      [] s = "02:ff:60:00:01:01,02:ff:60:00:01:01" ->
           <<"0","2",":","f","f",":","6","0",":","0","0",":","0","1",":",
             "0","1",",","0","2",":","f","f",":","6","0",":","0","0",":",
             "0","1",":","0","1">>
      [] s = "02:ff:60:00:01:01 02:ff:60:00:01:01" ->
           <<"0","2",":","f","f",":","6","0",":","0","0",":","0","1",":",
             "0","1"," ","0","2",":","f","f",":","6","0",":","0","0",":",
             "0","1",":","0","1">>
      [] s = "02:ff:60:00:01:01,02:ff:60:00:01:02,02ff60000103" ->
           <<"0","2",":","f","f",":","6","0",":","0","0",":","0","1",":",
             "0","1",",","0","2",":","f","f",":","6","0",":","0","0",":",
             "0","1",":","0","2",",","0","2","f","f","6","0","0","0","0",
             "1","0","3">>
      [] s = "02:ff:60:00:01:01 02:ff:60:00:01:02 02ff60000103" ->
           <<"0","2",":","f","f",":","6","0",":","0","0",":","0","1",":",
             "0","1"," ","0","2",":","f","f",":","6","0",":","0","0",":",
             "0","1",":","0","2"," ","0","2","f","f","6","0","0","0","0",
             "1","0","3">>
      [] s = "02:ff-60:00:01:01" ->
           <<"0","2",":","f","f","-","6","0",":","0","0",":","0","1",":",
             "0","1">>
      [] s = "02:ff-60:00:01:01,02:ff:60:00:01:02" ->
           <<"0","2",":","f","f","-","6","0",":","0","0",":","0","1",":",
             "0","1",",","0","2",":","f","f",":","6","0",":","0","0",":",
             "0","1",":","0","2">>
      [] s = "02:ff-60:00:01:01 02:ff:60:00:01:02" ->
           <<"0","2",":","f","f","-","6","0",":","0","0",":","0","1",":",
             "0","1"," ","0","2",":","f","f",":","6","0",":","0","0",":",
             "0","1",":","0","2">>
      [] s = "02:FF:60:00:01:01" ->
           <<"0","2",":","F","F",":","6","0",":","0","0",":","0","1",":",
             "0","1">>
      [] s = "02:FF:60:00:01:01,02:ff:60:00:01:01" ->
           <<"0","2",":","F","F",":","6","0",":","0","0",":","0","1",":",
             "0","1",",","0","2",":","f","f",":","6","0",":","0","0",":",
             "0","1",":","0","1">>
      [] s = "02:FF:60:00:01:01 02:ff:60:00:01:01" ->
           <<"0","2",":","F","F",":","6","0",":","0","0",":","0","1",":",
             "0","1"," ","0","2",":","f","f",":","6","0",":","0","0",":",
             "0","1",":","0","1">>
      [] s = "(" -> <<"(">>
      [] s = ")" -> <<")">>
      [] s = " " -> <<" ">>
      [] s = "3" -> <<"3">>
      [] s = "4" -> <<"4">>
      [] s = "6" -> <<"6">>
      [] s = "7" -> <<"7">>
      [] s = "8" -> <<"8">>
      [] s = "9" -> <<"9">>
      [] s = "vnet0:bridge0" ->
           <<"v","n","e","t","0",":","b","r","i","d","g","e","0">>
      [] s = "/etc/resolv.conf" ->
           <<"/","e","t","c","/","r","e","s","o","l","v",".","c","o","n","f">>
      [] s = "02ff60" ->
           <<"0","2","f","f","6","0">>
      [] s = "/bin/sh /etc/rc" ->
           <<"/","b","i","n","/","s","h"," ","/","e","t","c","/","r","c">>
      [] s = "/bin/sh /etc/rc.shutdown" ->
           <<"/","b","i","n","/","s","h"," ","/","e","t","c","/","r","c",".","s","h","u","t","d","o","w","n">>
      [] s = "/usr/bin/true" ->
           <<"/","u","s","r","/","b","i","n","/","t","r","u","e">>
      [] s = "60" ->
           <<"6","0">>
      [] s = "30" ->
           <<"3","0">>
      [] s = "root" ->
           <<"r","o","o","t">>
      [] s = "-f root" ->
           <<"-","f"," ","r","o","o","t">>
      [] s = "99" ->
           <<"9","9">>
      [] s = "0c1a2b3c" -> <<"0","c","1","a","2","b","3","c">>
      [] s = "iocage" -> <<"i","o","c","a","g","e">>
      [] s = "jails" -> <<"j","a","i","l","s">>
      [] s = "poolname" -> <<"p","o","o","l","n","a","m","e">>
      [] s = "" -> <<>>

\* The string made of the characters cs.
StrOf(cs) ==
    LET Strings ==
            {UUID, HostId, TagName, HostName, DateTag, DateTagLegacy, NoDateTag,
             "11.2-RELEASE-p4", "11.2-RELEASE", "9.3-RELEASE", "12.0-RELEASE-p3",
             "12.0-RELEASE", "release", "host_hostuuid", "host_hostname", "# legacy",
             "", "(", ")", " ", "3", "4", "6", "7", "8", "9",
             "quota", "compression", "boot", "allow_mlock", "priority", "dhcp",
             "jail_zfs_dataset", "jail_zfs", "template", "notes", "vnet0_mac",
             "allow_raw_sockets", "allow_mount_zfs", "vnet", "ip4_addr", "foo",
             "type", "allow.mlock", "jail.zfs.dataset", "jail.zfs", "vnet0.mac",
             "host.hostname", "allow.raw_sockets", "allow.mount.zfs", "ip4.addr",
             "10G", "10g", "10X", "none", "lz4", "on", "off", "maybe", "1", "10", "2",
             "5", "100", "x", "yes", "no", "hello", "bar", "jail", "0", "string", ":",
             ",", "new", "inherit", "disable", "iocage/jails/web/data",
             "em0|10.0.0.2", "DEFAULT|10.0.0.2", "em0", "DEFAULT", "10.0.0.2",
             "02:ff:60:00:01:01", "02:ff:60:00:01:02", "02ff60000103",
             "02:ff:60:00:01:01,02:ff:60:00:01:02",
             "02:ff:60:00:01:01 02:ff:60:00:01:02",
             "02:ff:60:00:01:01,02:ff:60:00:01:01",
             "02:ff:60:00:01:01 02:ff:60:00:01:01",
             "02:ff:60:00:01:01,02:ff:60:00:01:02,02ff60000103",
             "02:ff:60:00:01:01 02:ff:60:00:01:02 02ff60000103", "02:ff-60:00:01:01",
             "02:ff-60:00:01:01,02:ff:60:00:01:02",
             "02:ff-60:00:01:01 02:ff:60:00:01:02", "02:FF:60:00:01:01",
             "02:FF:60:00:01:01,02:ff:60:00:01:01",
             "02:FF:60:00:01:01 02:ff:60:00:01:01", "0c1a2b3c"}
    IN  CHOOSE s \in Strings : Chars(s) = cs

(***************************************************************************)
(* The str methods json_convert_from_ucl applies to a line of text.        *)
(***************************************************************************)
Whitespace == {" ", "\t", "\n"}

\* cs.partition(c): the text before the first c, the separator, the rest.
Partition(cs, c) ==
    LET at == {i \in 1..Len(cs) : cs[i] = c}
    IN  IF at = {} THEN <<cs, <<>>, <<>>>>
        ELSE LET i == CHOOSE k \in at : \A j \in at : k <= j
             IN  <<SubSeq(cs, 1, i - 1), <<c>>, SubSeq(cs, i + 1, Len(cs))>>

\* cs.strip()
Strip(cs) ==
    LET keep == {i \in 1..Len(cs) : cs[i] \notin Whitespace}
    IN  IF keep = {} THEN <<>>
        ELSE SubSeq(cs, CHOOSE k \in keep : \A j \in keep : k <= j,
                        CHOOSE k \in keep : \A j \in keep : j <= k)

(***************************************************************************)
(* datetime.datetime.strptime(tag, fmt): the format is compiled to a       *)
(* regular expression, one group per directive, matched with ordered       *)
(* alternatives and backtracking from the start of the string; all of the  *)
(* string must be consumed and the day must exist in the month.            *)
(***************************************************************************)
Digit == {"0","1","2","3","4","5","6","7","8","9"}

\* The value of the digits cs[i..j-1] (a leading space counts as nothing).
RECURSIVE NumVal(_, _, _)
NumVal(cs, i, j) ==
    LET DigitVal(c) ==
            CASE c = "0" -> 0 [] c = "1" -> 1 [] c = "2" -> 2 [] c = "3" -> 3
              [] c = "4" -> 4 [] c = "5" -> 5 [] c = "6" -> 6 [] c = "7" -> 7
              [] c = "8" -> 8 [] c = "9" -> 9
    IN  IF j <= i THEN 0
        ELSE IF cs[j - 1] \in Digit
             THEN 10 * NumVal(cs, i, j - 1) + DigitVal(cs[j - 1])
             ELSE NumVal(cs, i, j - 1)

\* The end positions a directive can match from position i, best first.
\* d is a directive of the format or a literal character.
DirectiveEnds(d, cs, i) ==
    LET IsDigitAt(cs_, i_) ==
            i_ >= 1 /\ i_ <= Len(cs_) /\ cs_[i_] \in Digit
    IN  \* Two digits at i whose value lies in lo..hi.
        LET TwoDigits(cs_, i_, lo, hi) ==
                /\ IsDigitAt(cs_, i_) /\ IsDigitAt(cs_, i_ + 1)
                /\ NumVal(cs_, i_, i_ + 2) >= lo /\ NumVal(cs_, i_, i_ + 2) <= hi
        IN  CASE d = "%Y" ->
                   IF \A k \in 0..3 : IsDigitAt(cs, i + k) THEN <<i + 4>> ELSE <<>>
              [] d = "%m" ->
                   (IF TwoDigits(cs, i, 10, 12) \/ TwoDigits(cs, i, 1, 9)
                    THEN <<i + 2>> ELSE <<>>)
                   \o (IF IsDigitAt(cs, i) /\ cs[i] # "0" THEN <<i + 1>> ELSE <<>>)
              [] d = "%d" ->
                   (IF TwoDigits(cs, i, 1, 31) THEN <<i + 2>> ELSE <<>>)
                   \o (IF IsDigitAt(cs, i) /\ cs[i] # "0" THEN <<i + 1>> ELSE <<>>)
                   \o (IF i <= Len(cs) /\ cs[i] = " " /\ IsDigitAt(cs, i + 1)
                          /\ cs[i + 1] # "0"
                       THEN <<i + 2>> ELSE <<>>)
              [] d = "%H" ->
                   (IF TwoDigits(cs, i, 0, 23) THEN <<i + 2>> ELSE <<>>)
                   \o (IF IsDigitAt(cs, i) THEN <<i + 1>> ELSE <<>>)
              [] d = "%M" ->
                   (IF TwoDigits(cs, i, 0, 59) THEN <<i + 2>> ELSE <<>>)
                   \o (IF IsDigitAt(cs, i) THEN <<i + 1>> ELSE <<>>)
              [] d = "%S" ->
                   (IF TwoDigits(cs, i, 0, 61) THEN <<i + 2>> ELSE <<>>)
                   \o (IF IsDigitAt(cs, i) THEN <<i + 1>> ELSE <<>>)
              [] d = "%f" ->
                   LET n == CHOOSE k \in 0..6 :
                               /\ \A j \in 0..(k - 1) : IsDigitAt(cs, i + j)
                               /\ (k = 6 \/ ~IsDigitAt(cs, i + k))
                   IN  [j \in 1..n |-> i + n + 1 - j]
              [] OTHER ->
                   IF i <= Len(cs) /\ cs[i] = d THEN <<i + 1>> ELSE <<>>

\* The first match of the directives fmt[k..] from position i: the end
\* position of each directive, or <<>> when there is no match.
RECURSIVE RegexMatch(_, _, _, _)
RECURSIVE FirstMatch(_, _, _, _, _)
RegexMatch(fmt, k, cs, i) ==
    IF k > Len(fmt) THEN <<i>>
    ELSE FirstMatch(fmt, k, cs, DirectiveEnds(fmt[k], cs, i), 1)

FirstMatch(fmt, k, cs, ends, n) ==
    IF n > Len(ends) THEN <<>>
    ELSE LET rest == RegexMatch(fmt, k + 1, cs, ends[n])
         IN  IF rest # <<>>
             THEN IF k = Len(fmt) THEN <<ends[n]>> ELSE <<ends[n]>> \o rest
             ELSE FirstMatch(fmt, k, cs, ends, n + 1)

\* strptime(s, fmt) does not raise ValueError.
Strptime(s, fmt) ==
    LET DaysIn(y, m) ==
            LET LeapYear(y_) ==
                    (y_ % 4 = 0 /\ y_ % 100 # 0) \/ y_ % 400 = 0
            IN  IF m = 2 THEN (IF LeapYear(y) THEN 29 ELSE 28)
                ELSE IF m \in {4, 6, 9, 11} THEN 30 ELSE 31
    IN  LET cs == Chars(s)
            e  == RegexMatch(fmt, 1, cs, 1)
        IN  /\ e # <<>>
            /\ e[Len(fmt)] = Len(cs) + 1
            /\ LET y == NumVal(cs, 1, e[1])
                   m == NumVal(cs, e[2], e[3])
                   d == NumVal(cs, e[4], e[5])
               IN  y >= 1 /\ d <= DaysIn(y, m)

date_fmt ==
    <<"%Y", "-", "%m", "-", "%d", "@", "%H", ":", "%M", ":", "%S", ":", "%f">>

(***************************************************************************)
(* Records.                                                                *)
(***************************************************************************)
Has(c, k) == k \in DOMAIN c

Get(c, k, d) == IF k \in DOMAIN c THEN c[k] ELSE d

Put(c, k, v) == [x \in DOMAIN c \cup {k} |-> IF x = k THEN v ELSE c[x]]

Empty == [x \in {} |-> None]

\* f"iocage/jails/{name}/data"
DataDataset(name) == <<"iocage/jails", name, "data">>

\* The keys the upgrade ladder adds or re-asserts.
LadderKeys ==
    {"sysvmsg", "sysvsem", "sysvshm", "release", "cloned_release", "basejail",
     "comment", "host_time", "depends", "dhcp", "bpf", "vnet_interfaces",
     "hostid_strict_check", "allow_mlock", "vnet_default_interface",
     "allow_tun"}

\* The directory n holds a file in the map f of files.
HasFile(f, n) == n \in DOMAIN f

(***************************************************************************)
(* The stored records the model draws from.  A record written by an older  *)
(* version: CONFIG_VERSION v (None: the key is absent), release r, tag t,  *)
(* host_hostname hn and host_hostuuid hu, each None when absent.           *)
(***************************************************************************)
OldRecord(v, r, t, hn, hu) ==
    LET present == {"jail_zfs_dataset", "type"}
                   \cup (IF v = None THEN {} ELSE {"CONFIG_VERSION"})
                   \cup (IF r = None THEN {} ELSE {"release"})
                   \cup (IF t = None THEN {} ELSE {"tag"})
                   \cup (IF hn = None THEN {} ELSE {"host_hostname"})
                   \cup (IF hu = None THEN {} ELSE {"host_hostuuid"})
    IN  [k \in present |->
            CASE k = "CONFIG_VERSION" -> v
              [] k = "release" -> r
              [] k = "tag" -> t
              [] k = "host_hostname" -> hn
              [] k = "host_hostuuid" -> hu
              [] k = "jail_zfs_dataset" -> DataDataset(UUID)
              [] k = "type" -> "jail"]

Versions == {None, "2", "13"}
HostUuids == {None, UUID}

\* The usual old record, the records that differ from it in one field, and
\* the partial one.
OldRecords ==
    \* An old record whose tag is the uuid and that holds some keys of the
    \* ladder, with values the user has set, and not the others.
    LET PartialRecord ==
            Put(Put(Put(OldRecord("13", "11.2-RELEASE-p4", UUID, UUID, UUID),
                        "sysvmsg", "inherit"), "dhcp", "on"), "basejail", "yes")
    IN  LET HostNames ==
                {UUID, HostName}
        IN  LET Tags ==
                    {None, UUID, TagName, DateTag, DateTagLegacy, NoDateTag}
            IN  LET Releases ==
                        {None, "11.2-RELEASE-p4", "9.3-RELEASE"}
                IN  {PartialRecord} \cup
                    {OldRecord(v, "11.2-RELEASE-p4", TagName, UUID, UUID) : v \in Versions}
                    \cup {OldRecord("13", r, TagName, UUID, UUID) : r \in Releases}
                    \cup {OldRecord("13", "11.2-RELEASE-p4", tg, UUID, UUID) : tg \in Tags}
                    \cup {OldRecord("13", "11.2-RELEASE-p4", TagName, hn, UUID) :
                              hn \in HostNames}
                    \cup {OldRecord("13", "11.2-RELEASE-p4", TagName, UUID, hu) :
                              hu \in HostUuids}

\* A record at the current version, as a current iocage writes it.
CurrentRecord(hu) ==
    LET base == [k \in LadderKeys \cup {"CONFIG_VERSION", "host_hostname",
                                        "jail_zfs_dataset", "type"} |->
                    CASE k = "CONFIG_VERSION" -> CONFIG_VERSION
                      [] k = "host_hostname" -> UUID
                      [] k = "jail_zfs_dataset" -> DataDataset(UUID)
                      [] k = "type" -> "jail"
                      [] k \in {"sysvmsg", "sysvsem", "sysvshm"} -> "new"
                      [] k = "release" -> "11.2-RELEASE-p4"
                      [] k = "cloned_release" -> "11.2-RELEASE"
                      [] k \in {"basejail", "bpf"} -> "no"
                      [] k = "host_time" -> "yes"
                      [] k \in {"dhcp", "hostid_strict_check"} -> "off"
                      [] k \in {"allow_mlock", "allow_tun"} -> "0"
                      [] OTHER -> "none"]
    IN  IF hu = None THEN base ELSE Put(base, "host_hostuuid", hu)

(***************************************************************************)
(* The state the operations work on, and what an operation yields.         *)
(***************************************************************************)
Cur ==
    [loaded |-> loaded, mem |-> mem, location |-> location, cfg |-> cfg,
     fstab |-> fstab, ds |-> ds, snaps |-> snaps, props |-> props,
     calls |-> <<>>, via |-> <<>>]

\* An exception e leaves the operation; conf is the dict as mutated so far.
Raise(s, e, conf) ==
    [s |-> s, out |-> e, conf |-> conf, rtrn |-> FALSE, date |-> FALSE,
     early |-> FALSE]

Return(s, conf, rtrn, date, early) ==
    [s |-> s, out |-> "returned", conf |-> conf, rtrn |-> rtrn, date |-> date,
     early |-> early]

\* iocage_lib.ioc_common.logit with level EXCEPTION raises.
LogitException(s, msg, conf) == Raise(s, msg, conf)

\* A variant that tries the format with microseconds only.
IsDateLike_MicrosecondsOnly(tag) == Strptime(tag, date_fmt)

\* A variant that lets the rename of a running jail proceed.
RunningGuard_NeverRaises(state) ==
    IF stop /\ state THEN "defer" ELSE "proceed"

(***************************************************************************)
(* json_migrate_uuid_to_tag(uuid, tag, state, conf)                        *)
(***************************************************************************)
\* The two strptime attempts: the tag is a date, so the jail keeps its name.
IsDateLike(tag) ==
    LET date_fmt_legacy ==
            <<"%Y", "-", "%m", "-", "%d", "@", "%H", ":", "%M", ":", "%S">>
    IN  Strptime(tag, date_fmt) \/ Strptime(tag, date_fmt_legacy)

\* What a running jail means for a genuine rename.
RunningGuard(state) ==
    IF stop /\ state THEN "defer"
    ELSE IF state THEN "raise"
    ELSE "proceed"

\* A variant in which the rename is left by a ZFSException that the handler
\* of the function passes over.
RenameDatasets_Swallowed(s, uuid, tag, conf) ==
    Return(s, conf, FALSE, TRUE, FALSE)

\* A variant in which the old tree is destroyed first, and the snapshot
\* step then fails.
RenameDatasets_DeleteFirst(s, uuid, tag, conf) ==
    Raise([s EXCEPT !.ds = @ \ {uuid},
                    !.calls = Append(@, <<"delete", uuid>>)],
          "ZFSException", conf)

\* The rename itself.  Its first statement builds f"{pool}/iocage/jails/{uuid}"
\* and pool is a name bound neither in the function nor in the module: it
\* raises NameError, which no handler of the function catches, before any
\* storage call.
RenameDatasets(s, uuid, tag, conf) == Raise(s, "NameError", conf)

\* conf["host_hostuuid"] = tag, and host_hostname follows unless customised.
UpdateIdentity(s, uuid, tag, conf) ==
    \* The results of the date-like path: (conf, False, True).
    LET MigrateResult(s_, conf_) ==
            Return(s_, conf_, FALSE, TRUE, FALSE)
    IN  LET c1 == Put(conf, "host_hostuuid", tag)
        IN  IF ~Has(c1, "host_hostname") THEN Raise(s, "KeyError", c1)
            ELSE MigrateResult(s, IF c1["host_hostname"] = uuid
                                  THEN Put(c1, "host_hostname", tag) ELSE c1)

JsonMigrateUuidToTag(s, uuid, tag, state, conf) ==
    \* The result when the jail is to be stopped first: (conf, True, False).
    LET DeferResult(s_, conf_) ==
            Return(s_, conf_, TRUE, FALSE, TRUE)
    IN  IF IsDateLike(tag) THEN UpdateIdentity(s, uuid, uuid, conf)
        ELSE LET g == RunningGuard(state)
             IN  CASE g = "defer" -> DeferResult(s, conf)
                   [] g = "raise" ->
                        LogitException(s, "JailRunning", conf)
                   [] OTHER ->
                        LET r == RenameDatasets(s, uuid, tag, conf)
                        IN  IF r.out # "returned" THEN r
                            ELSE UpdateIdentity(r.s, uuid, tag, r.conf)

(***************************************************************************)
(* json_write, and the text rewrite of an fstab.                           *)
(***************************************************************************)
\* json_write(data) at self.location; the directory is the mounted dataset.
JsonWrite(s, data) ==
    IF s.location \notin s.ds THEN Raise(s, "FileNotFoundError", data)
    ELSE Return([s EXCEPT !.cfg = Put(s.cfg, s.location, data),
                          !.calls = Append(s.calls,
                                           <<"write_config", s.location>>)],
                data, FALSE, FALSE, FALSE)

\* fileinput.input(<iocroot>/jails/<name>/fstab, inplace=1) printing every
\* line with uuid replaced by tag.
RewriteFstab(s, name, uuid, tag, conf) ==
    \* line.replace(uuid, tag) on a line that names a jail.
    LET ReplaceName(line, uuid_, tag_) ==
            IF line = uuid_ THEN tag_ ELSE line
    IN  IF ~HasFile(s.fstab, name) THEN Raise(s, "FileNotFoundError", conf)
        ELSE LET old == s.fstab[name]
                 new == [i \in 1..Len(old) |-> ReplaceName(old[i], uuid, tag)]
             IN  Return([s EXCEPT !.fstab = Put(s.fstab, name, new),
                                  !.calls = Append(s.calls,
                                                   <<"rewrite_fstab", name>>)],
                        conf, FALSE, FALSE, FALSE)

\* json_read(_file): the file at self.location + _file.  A path is the
\* sequence of its parts, self.location being the directory of the jail.
JsonRead(s, file) ==
    LET filepath == <<s.location>> \o file
    IN  IF Len(filepath) = 2 /\ filepath[2] = "config.json"
           /\ HasFile(s.cfg, filepath[1])
        THEN Return(s, s.cfg[filepath[1]], FALSE, FALSE, FALSE)
        ELSE Raise(s, "FileNotFoundError", NoRecord)

(***************************************************************************)
(* json_convert_from_ucl: the legacy file <location>/config.               *)
(***************************************************************************)
\* line.partition("=")[0].rstrip()
UclKey(line) ==
    \* cs.rstrip()
    LET RStrip(cs) ==
            LET keep == {i \in 1..Len(cs) : cs[i] \notin Whitespace}
            IN  IF keep = {} THEN <<>>
                ELSE SubSeq(cs, 1, CHOOSE k \in keep : \A j \in keep : j <= k)
    IN  StrOf(RStrip(Partition(line, "=")[1]))

\* key_and_value after the loop: a later line overwrites an earlier one.
UclRecord(lines) ==
    \* line.partition("=")[2].replace(";", "").replace('"', '').strip()
    LET UclValue(line) ==
            \* cs.replace(c, "")
            LET Remove(cs, c) ==
                    SelectSeq(cs, LAMBDA x : x # c)
            IN  StrOf(Strip(Remove(Remove(Partition(line, "=")[3], ";"), "\"")))
    IN  [k \in {UclKey(lines[i]) : i \in 1..Len(lines)} |->
            LET at == {i \in 1..Len(lines) : UclKey(lines[i]) = k}
            IN  UclValue(lines[CHOOSE i \in at : \A j \in at : j <= i])]

\* A variant that enters the importer without the check of the euid.
NotRoot_Unchecked == FALSE

\* os.geteuid() != 0
NotRoot == ~root

JsonConvertFromUcl(s) ==
    LET s1 == [s EXCEPT !.via = Append(@, <<"json_convert_from_ucl">>)]
    IN  IF NotRoot THEN Raise(s1, "RuntimeError: root", NoRecord)
        ELSE IF ~flat.exists THEN Raise(s1, "FileNotFoundError", NoRecord)
        ELSE JsonWrite([s1 EXCEPT !.via = Append(@, <<"read", "config">>)],
                       UclRecord(flat.lines))

(***************************************************************************)
(* json_convert_from_zfs: the org.freebsd.iocage properties of the         *)
(* dataset.  A property is [prefix, name, value]: its key is               *)
(* prefix:name.                                                            *)
(***************************************************************************)
prop_prefix == "org.freebsd.iocage"

Prop(prefix, name, value) ==
    [prefix |-> prefix, name |-> name, value |-> value]

\* props[f"{prop_prefix}:{name}"]: the properties with that key.
PropsNamed(items, name) ==
    {i \in 1..Len(items) :
        items[i].prefix = prop_prefix /\ items[i].name = name}

\* One turn of the loop over props.items() for the property p.
ZfsStep(p, uuid, byvalue, items, kv) ==
    \* value != hostname and hostname == uuid, hostname being the property
    \* object props[...] and not its value: an object that defines no equality
    \* equals no str; one that compares by its value equals the str of its value.
    LET ObjectEqualsStr(byvalue_, object, str) ==
            byvalue_ /\ object.value = str
    IN  IF p.prefix # prop_prefix THEN kv
        ELSE IF p.name = "type"
        THEN IF p.value = "basejail"
             THEN Put(Put(kv, "basejail", "yes"), "type", "jail")
             ELSE Put(kv, "type", p.value)
        ELSE IF p.name = "hostname"
        THEN LET hostname ==
                     items[CHOOSE i \in PropsNamed(items, "host_hostname") : TRUE]
             IN  IF ~ObjectEqualsStr(byvalue, hostname, p.value)
                    /\ ObjectEqualsStr(byvalue, hostname, uuid)
                 THEN Put(kv, "host_hostname", p.value)
                 ELSE kv
        ELSE Put(kv, p.name, p.value)

\* The loop from the property i on; "KeyError" when a hostname property
\* comes without a host_hostname property.
RECURSIVE ZfsRecord(_, _, _, _, _)
ZfsRecord(items, i, uuid, byvalue, kv) ==
    IF i > Len(items) THEN [out |-> "returned", kv |-> kv]
    ELSE IF items[i].prefix = prop_prefix /\ items[i].name = "hostname"
            /\ PropsNamed(items, "host_hostname") = {}
    THEN [out |-> "KeyError", kv |-> kv]
    ELSE ZfsRecord(items, i + 1, uuid, byvalue,
                   ZfsStep(items[i], uuid, byvalue, items, kv))

\* if not skip: the four storage operations of the try block, in order.  The
\* first ZFSException ends the block and is passed over: root/data that
\* does not exist raises it in the first operation, and props.failat names
\* the operation (1..4) the storage refuses, 0 for none.
MoveJailedDataset(s, uuid) ==
    LET failat == s.props.failat
        s1 == [s EXCEPT !.props.jailed = "off",
                        !.calls = Append(@, <<"set_property", uuid, "jailed=off">>)]
        s2 == [s1 EXCEPT !.props.rootdata = FALSE,
                         !.props.data = TRUE,
                         !.calls = Append(@, <<"rename", uuid, "root/data">>)]
        s3 == [s2 EXCEPT !.calls =
                   Append(@, <<"set_property", uuid, "jail_zfs_dataset">>)]
        s4 == [s3 EXCEPT !.props.jailed = "on",
                         !.calls = Append(@, <<"set_property", uuid, "jailed=on">>)]
    IN  IF ~s.props.rootdata \/ failat = 1 THEN s
        ELSE IF failat = 2 THEN s1
        ELSE IF failat = 3 THEN s2
        ELSE IF failat = 4 THEN s3
        ELSE s4

JsonConvertFromZfs(s, uuid, skip) ==
    LET s1 == [s EXCEPT !.via = Append(@, <<"json_convert_from_zfs">>)]
        s2 == [s1 EXCEPT !.via = Append(@, <<"read", "properties">>)]
        kv == ZfsRecord(s.props.items, 1, uuid, s.props.byvalue,
                        [k \in {"host_domainname"} |-> "none"])
    IN  IF NotRoot THEN Raise(s1, "RuntimeError: root", NoRecord)
        ELSE IF uuid \notin s.ds THEN Raise(s1, "ZFSException", NoRecord)
        ELSE IF kv.out # "returned" THEN Raise(s2, kv.out, kv.kv)
        ELSE JsonWrite(IF skip THEN s2 ELSE MoveJailedDataset(s2, uuid),
                       Put(kv.kv, "jail_zfs_dataset", DataDataset(uuid)))

(***************************************************************************)
(* Release normalisation of json_check_config.                             *)
(***************************************************************************)

\* release.rsplit("-p", 1)[0]
StripPatch(release) ==
    LET cs == Chars(release)
        at == {i \in 1..(Len(cs) - 1) : cs[i] = "-" /\ cs[i + 1] = "p"}
    IN  IF at = {} THEN release
        ELSE StrOf(SubSeq(cs, 1, (CHOOSE i \in at : \A j \in at : j <= i) - 1))

\* A variant that looks under releases/ only.
MarkerExists_ReleaseOnly(release, host_hostuuid) ==
    <<"releases", release>> \in markers

\* One of the two freebsd-version files exists.
MarkerExists(release, host_hostuuid) ==
    \/ <<"releases", release>> \in markers
    \/ <<"templates", host_hostuuid>> \in markers

(***************************************************************************)
(* __getitem__, json_load and json_check_config call one another.          *)
(***************************************************************************)
RECURSIVE JsonLoad(_, _)
RECURSIVE JsonCheckConfig(_, _, _, _)

\* The hardcoded defaults.
global_default_properties ==
    LET Zero ==
            {"exec_fib", "exec_system_jail_user", "children_max",
             "allow_sysvipc", "allow_raw_sockets", "allow_chflags",
             "allow_mlock", "allow_mount", "allow_mount_devfs",
             "allow_mount_nullfs", "allow_mount_procfs", "allow_mount_tmpfs",
             "allow_mount_zfs", "allow_quotas", "allow_socket_af", "allow_tun",
             "mount_procfs", "mount_linprocfs"}
        One ==
            {"ip4_saddrsel", "ip6_saddrsel", "exec_clean", "mount_devfs",
             "mount_fdescfs", "allow_set_hostname", "count"}
        Off ==
            {"cpuset", "rlimits", "memoryuse", "memorylocked", "vmemoryuse",
             "maxproc", "cputime", "pcpu", "datasize", "stacksize",
             "coredumpsize", "openfiles", "pseudoterminals", "swapuse", "nthr",
             "msgqqueued", "msgqsize", "nmsgq", "nsemop", "nshm", "shmsize",
             "wallclock", "dhcp", "boot", "hostid_strict_check", "jail_zfs",
             "vnet", "dedup"}
        NoneValue ==
            {"host_domainname", "ip4_addr", "ip6_addr", "defaultrouter",
             "defaultrouter6", "vnet0_mac", "vnet1_mac", "vnet2_mac",
             "vnet3_mac", "vnet_default_interface", "notes", "last_started",
             "jail_zfs_mountpoint", "comment", "sync_state", "sync_target",
             "sync_tgt_zpool", "quota", "reservation"}
        TrueCommand ==
            {"exec_prestart", "exec_poststart", "exec_prestop", "exec_poststop"}
        New == {"ip4", "ip6", "sysvmsg", "sysvsem", "sysvshm"}
        Root == {"exec_jail_user", "exec_system_user", "owner"}
        ReadOnly ==
            {"origin", "mountpoint", "compressratio", "available", "used"}
    IN  [k \in Zero \cup One \cup Off \cup NoneValue \cup TrueCommand \cup New
                \cup Root \cup ReadOnly
                \cup {"CONFIG_VERSION", "interfaces", "resolver", "mac_prefix",
                      "devfs_ruleset", "exec_start", "exec_stop",
                      "exec_timeout", "stop_timeout", "enforce_statfs",
                      "login_flags", "securelevel", "type", "bpf", "priority",
                      "template", "hostid", "basejail", "host_time",
                      "compression"} |->
            CASE k \in Zero -> "0"
              [] k \in One -> "1"
              [] k \in Off -> "off"
              [] k \in NoneValue -> "none"
              [] k \in TrueCommand -> "/usr/bin/true"
              [] k \in New -> "new"
              [] k \in Root -> "root"
              [] k \in ReadOnly -> "readonly"
              [] k = "CONFIG_VERSION" -> CONFIG_VERSION
              [] k = "interfaces" -> "vnet0:bridge0"
              [] k = "resolver" -> "/etc/resolv.conf"
              [] k = "mac_prefix" -> "02ff60"
              [] k = "devfs_ruleset" -> "4"
              [] k = "exec_start" -> "/bin/sh /etc/rc"
              [] k = "exec_stop" -> "/bin/sh /etc/rc.shutdown"
              [] k = "exec_timeout" -> "60"
              [] k = "stop_timeout" -> "30"
              [] k \in {"enforce_statfs", "securelevel"} -> "2"
              [] k = "login_flags" -> "-f root"
              [] k = "type" -> "jail"
              [] k \in {"bpf", "template", "basejail"} -> "no"
              [] k = "priority" -> "99"
              [] k = "hostid" -> HostId
              [] k = "host_time" -> "yes"
              [] k = "compression" -> "lz4"]

\* The value read from a loaded record.
ReadKey(m, key) ==
    IF key = "host_hostuuid" THEN Get(m, key, HostId)
    ELSE IF Has(m, key) THEN m[key]
    ELSE Get(global_default_properties, key, None)

\* A variant that keeps the default it returns in the dict, as
\* dict.setdefault does.
ReadLoaded_KeepsDefault(s, key) ==
    IF key # "host_hostuuid" /\ ~Has(s.mem, key)
       /\ ~Has(global_default_properties, key)
    THEN [s |-> s, out |-> "KeyError", val |-> None]
    ELSE [s |-> [s EXCEPT !.mem = Put(@, key, ReadKey(s.mem, key))],
          out |-> "returned", val |-> ReadKey(s.mem, key)]

\* dict.__getitem__(self, key), except KeyError: the hardcoded default, or
\* its KeyError.
ReadLoaded(s, key) ==
    IF key # "host_hostuuid" /\ ~Has(s.mem, key)
       /\ ~Has(global_default_properties, key)
    THEN [s |-> s, out |-> "KeyError", val |-> None]
    ELSE [s |-> s, out |-> "returned", val |-> ReadKey(s.mem, key)]

\* self[key]: loads the record first when it is not loaded.
GetItem(s, key, depth) ==
    IF s.loaded THEN ReadLoaded(s, key)
    ELSE The({IF r.out # "returned"
              THEN [s |-> r.s, out |-> r.out, val |-> None]
              ELSE ReadLoaded(r.s, key) :
              r \in {JsonLoad(s, depth + 1)}})

\* try: the keys ks are all read; except KeyError: all take their defaults.
DefaultTogether(conf, ks, dflt) ==
    IF \A k \in ks : Has(conf, k) THEN conf
    ELSE [x \in DOMAIN conf \cup ks |-> IF x \in ks THEN dflt[x] ELSE conf[x]]

\* Version 2 keys.
SysvKeys(conf) ==
    DefaultTogether(conf, {"sysvmsg", "sysvsem", "sysvshm"},
                    [k \in {"sysvmsg", "sysvsem", "sysvshm"} |-> "new"])

\* A variant that takes the host's release whatever the stored one is.
ReleaseKeys_AlwaysHost(conf, release, cloned_release) ==
    Put(Put(conf, "release", "12.0-RELEASE-p3"),
        "cloned_release", conf["release"])

\* Version 3 keys, once a freebsd-version file was found.
ReleaseKeys(conf, release, cloned_release) ==
    \* release[:4].endswith("-")
    LET OldNaming(release_) ==
            LET cs == Chars(release_)
                n  == IF Len(cs) < 4 THEN Len(cs) ELSE 4
            IN  n > 0 /\ cs[n] = "-"
    IN  \* The host's USERLAND_VERSION, from /bin/freebsd-version.
        LET host_release ==
                "12.0-RELEASE-p3"
        IN  IF OldNaming(release)
            THEN Put(Put(conf, "release", conf["release"]),
                     "cloned_release", cloned_release)
            ELSE Put(Put(conf, "release", host_release),
                     "cloned_release", conf["release"])

\* Version 4 to 7 keys.
BaseKeys(conf) ==
    LET c4 == DefaultTogether(conf, {"basejail"}, [k \in {"basejail"} |-> "no"])
        c5 == DefaultTogether(c4, {"comment"}, [k \in {"comment"} |-> "none"])
    IN  Put(Put(c5, "host_time", "yes"), "depends", "none")

\* Version 9 to 14 keys and CONFIG_VERSION.
LaterKeys(conf) ==
    \* if not conf.get(k): conf[k] = v
    LET DefaultIfFalsy(conf_, k, v) ==
            IF Has(conf_, k) /\ conf_[k] # "" THEN conf_ ELSE Put(conf_, k, v)
    IN  LET c9  == DefaultTogether(conf, {"dhcp", "bpf"},
                                   [k \in {"dhcp", "bpf"} |->
                                       IF k = "dhcp" THEN "off" ELSE "no"])
            c10 == DefaultTogether(c9, {"vnet_interfaces"},
                                   [k \in {"vnet_interfaces"} |-> "none"])
            cv  == Put(c10, "CONFIG_VERSION", CONFIG_VERSION)
            c11 == DefaultTogether(cv, {"hostid_strict_check"},
                                   [k \in {"hostid_strict_check"} |-> "off"])
            c12 == DefaultTogether(c11, {"allow_mlock"},
                                   [k \in {"allow_mlock"} |-> "0"])
            c13 == DefaultIfFalsy(c12, "vnet_default_interface", "none")
        IN  DefaultIfFalsy(c13, "allow_tun", "0")

\* The state json_check_config reads from jls: false when jls fails.
JlsState(uuid) ==
    \* uuid.replace('.', '_'), the name after "ioc-" that jls is asked for.
    LET JlsName(uuid_) ==
            LET cs == Chars(uuid_)
            IN  StrOf([i \in 1..Len(cs) |-> IF cs[i] = "." THEN "_" ELSE cs[i]])
    IN  JlsName(uuid) \in running

\* What the caller does with json_migrate_uuid_to_tag's results: the
\* fstab pass, when date is false.
FixFstab(s, uuid, tag, conf, date) ==
    IF date THEN [res |-> Return(s, conf, FALSE, FALSE, FALSE),
                  renamed |-> FALSE]
    ELSE [res |-> RewriteFstab(s, tag, uuid, tag, conf), renamed |-> TRUE]

\* Version 8 once json_migrate_uuid_to_tag has ended as m.
AfterMigrate(m, uuid, tag) ==
    IF m.out = "KeyError"
    THEN \* except KeyError: "New jail creation"
         [res |-> Return(m.s, m.conf, FALSE, FALSE, FALSE), renamed |-> FALSE]
    ELSE IF m.out # "returned"
    THEN [res |-> m, renamed |-> FALSE]
    ELSE The({IF f.res.out # "returned" THEN f
              ELSE [res |-> Return(f.res.s, f.res.conf, m.rtrn, m.date,
                                   m.rtrn),
                    renamed |-> f.renamed] :
              f \in {FixFstab(m.s, uuid, tag,
                              Put(m.conf, "jail_zfs_dataset",
                                  DataDataset(tag)),
                              m.date)}})

\* Version 8 once self["host_hostuuid"] has been read as u.
MigrateIfTagged(u, conf) ==
    LET tag  == conf["tag"]
        uuid == u.val
    IN  IF u.out # "returned"
        THEN [res |-> Raise(u.s, u.out, conf), renamed |-> FALSE]
        ELSE IF tag = uuid
        THEN [res |-> Return(u.s, conf, FALSE, FALSE, FALSE),
              renamed |-> FALSE]
        ELSE IF ~force
        THEN [res |-> LogitException(u.s, "RenameRequired", conf),
              renamed |-> FALSE]
        ELSE The({AfterMigrate(m, uuid, tag) :
                  m \in {JsonMigrateUuidToTag(u.s, uuid, tag, JlsState(uuid),
                                              conf)}})

\* Version 8: the migration from a uuid named to a tag named dataset.
TagStep(s, conf, depth) ==
    IF ~Has(conf, "tag")
    THEN [res |-> Return(s, conf, FALSE, FALSE, FALSE), renamed |-> FALSE]
    ELSE The({MigrateIfTagged(u, conf) :
              u \in {GetItem(s, "host_hostuuid", depth)}})

\* The end of json_check_config: the record is written unless default.
Persist(s, conf, default, renamed) ==
    LET w == IF default \/ renamed THEN Return(s, conf, FALSE, FALSE, FALSE)
             ELSE JsonWrite(s, conf)
    IN  IF w.out = "FileNotFoundError"
        THEN \* "Dataset was renamed": write under the tag, then tell the
             \* user to issue the command again
             IF ~Has(conf, "tag") THEN Raise(s, "UnboundLocalError", conf)
             ELSE LET w2 == JsonWrite([s EXCEPT !.location = conf["tag"]],
                                      conf)
                  IN  IF w2.out # "returned" THEN w2
                      ELSE LogitException(w2.s, "IssueCommandAgain", conf)
        ELSE IF renamed
        THEN \* self.location = f"{self.iocroot}/jails/{tag}": the text of
             \* a dataset object, not a mountpoint
             LET w3 == JsonWrite([w.s EXCEPT
                                     !.location = <<"iocroot", conf["tag"]>>],
                                 conf)
             IN  IF w3.out # "returned" THEN w3
                 ELSE LogitException(w3.s, "IssueCommandAgain", conf)
        ELSE Return(w.s, conf, FALSE, FALSE, FALSE)

\* json_check_config from the version 3 keys on, self["host_hostuuid"]
\* having been read as h.
UpgradeFrom(h, c2, default, depth) ==
    LET release == StripPatch(c2["release"])
        cloned  == Get(c2, "cloned_release", "LEGACY_JAIL")
    IN  IF h.out # "returned" THEN Raise(h.s, h.out, c2)
        ELSE IF ~MarkerExists(release, h.val)
        THEN Raise(h.s, "RuntimeError", c2)
        ELSE The({IF t.res.out # "returned" THEN t.res
                  ELSE IF t.res.rtrn THEN t.res
                  ELSE Persist(t.res.s, LaterKeys(t.res.conf), default,
                               t.renamed) :
                  t \in {TagStep(h.s,
                                 BaseKeys(ReleaseKeys(c2, release, cloned)),
                                 depth)}})

JsonCheckConfig(s, conf, default, depth) ==
    IF NotRoot THEN LogitException(s, "RootRequired", conf)
    ELSE IF ~Has(SysvKeys(conf), "release")
    THEN \* the message is built from iocage.lib, an unbound name
         Raise(s, "NameError: iocage", SysvKeys(conf))
    ELSE The({UpgradeFrom(h, SysvKeys(conf), default, depth) :
              h \in {GetItem(s, "host_hostuuid", depth)}})

\* A variant that reads config.json of the location.
ReadBack_AtLocation(c) ==
    IF c.out # "returned" THEN c
    ELSE JsonRead(c.s, <<"config.json">>)

\* conf = self.json_read(self.location + "/config.json") after an importer
\* that ended as c: _file already holds the location.
ReadBack(c) ==
    IF c.out # "returned" THEN c
    ELSE JsonRead(c.s, <<c.s.location, "config.json">>)

\* A variant that prefers the properties to the legacy file.
LegacyImport_PropertiesFirst(s) ==
    LET hasprop == PropsNamed(s.props.items, "host_hostuuid") # {}
    IN  IF ~hasprop /\ ~flat.exists
        THEN LogitException(s, "MissingConfiguration", NoRecord)
        ELSE IF ~force THEN LogitException(s, "RenameRequired", NoRecord)
        ELSE IF hasprop THEN ReadBack(JsonConvertFromZfs(s, s.location, FALSE))
        ELSE ReadBack(JsonConvertFromUcl(s))

\* IOCList().list_get_jid(uuid)[0]: the jail is running.
ListGetJid(uuid) == uuid \in running

\* The hack88 migration json_load runs for a part of the location that is 8
\* characters long: the importer, the stop of a running jail, and the rename
\* of the dataset full_uuid to the first 8 characters of its name.
Hack88(s, full_uuid) ==
    LET short_uuid == StrOf(SubSeq(Chars(full_uuid), 1, 8))
        \* zfs_get_property: the value, or "-" for a property that is not set
        hn == PropsNamed(s.props.items, "host_hostname")
        jail_hostname ==
            IF hn = {} THEN "-" ELSE s.props.items[CHOOSE i \in hn : TRUE].value
        \* zfs_set_property of a user property
        SetUser(items, name, value) ==
            IF PropsNamed(items, name) = {}
            THEN Append(items, Prop(prop_prefix, name, value))
            ELSE [i \in 1..Len(items) |->
                     IF i \in PropsNamed(items, name)
                     THEN Prop(prop_prefix, name, value) ELSE items[i]]
        \* the files of the dataset follow its name
        Renamed(f) ==
            [n \in (DOMAIN f \ {full_uuid})
                   \cup (IF full_uuid \in DOMAIN f THEN {short_uuid} ELSE {}) |->
                IF n = short_uuid /\ full_uuid \in DOMAIN f
                THEN f[full_uuid] ELSE f[n]]
    IN  The({
        IF c.out # "returned" THEN c
        ELSE LET s1 == IF ListGetJid(full_uuid)
                       THEN [c.s EXCEPT !.calls = Append(@, <<"IOCStop", full_uuid>>)]
                       ELSE c.s
                 s2 == [s1 EXCEPT
                          !.props.jailed = "off",
                          !.props.items =
                              SetUser(IF jail_hostname = full_uuid
                                      THEN SetUser(@, "host_hostname", short_uuid)
                                      ELSE @,
                                      "host_hostuuid", short_uuid)]
                 s3 == [s2 EXCEPT
                          !.ds = (@ \ {full_uuid}) \cup {short_uuid},
                          !.cfg = Renamed(@),
                          !.fstab = Renamed(@),
                          !.props.jailed = "on",
                          !.location = short_uuid,
                          !.calls = Append(@, <<"rename", "jails", full_uuid,
                                                short_uuid>>)]
             IN  IF ~s1.props.data THEN Raise(s1, "ZFSException", c.conf)
                 ELSE IF short_uuid \in s2.ds
                 THEN Raise(s2, "ZFSException", c.conf)
                 ELSE Return(s3, c.conf, FALSE, FALSE, FALSE)
        : c \in {ReadBack(JsonConvertFromZfs(s, full_uuid, FALSE))} })

\* for d in dataset, from the part i on: a part of 36 characters is the
\* uuid, a part of 8 characters starts the hack88 migration; a is the state,
\* the names uuid and skip, and the exception that ended the loop.
RECURSIVE LocationLoop(_, _, _, _)
LocationLoop(a, dataset, i, full_uuid) ==
    IF i > Len(dataset) \/ a.out # "returned" THEN a
    ELSE IF Len(Chars(dataset[i])) = 36
    THEN LocationLoop([a EXCEPT !.uuid = dataset[i]], dataset, i + 1, full_uuid)
    ELSE IF Len(Chars(dataset[i])) = 8
    THEN The({LocationLoop([s |-> h.s, out |-> h.out, conf |-> h.conf,
                            uuid |-> StrOf(SubSeq(Chars(full_uuid), 1, 8)),
                            skip |-> TRUE],
                           dataset, i + 1, full_uuid) :
              h \in {Hack88(a.s, full_uuid)}})
    ELSE LocationLoop(a, dataset, i + 1, full_uuid)

\* The except FileNotFoundError branch of json_load: the legacy sources.
LegacyImport(s) ==
    LET hasprop == PropsNamed(s.props.items, "host_hostuuid") # {}
        \* self.location.split("/")
        dataset == s.props.mount \o <<"jails", s.location>>
    IN  IF ~hasprop /\ ~flat.exists
        THEN LogitException(s, "MissingConfiguration", NoRecord)
        ELSE IF ~force THEN LogitException(s, "RenameRequired", NoRecord)
        ELSE IF flat.exists THEN ReadBack(JsonConvertFromUcl(s))
        ELSE The({
            IF a.out # "returned" THEN Raise(a.s, a.out, a.conf)
            ELSE IF a.uuid = None
            THEN \* no part of the location is 36 or 8 characters long: uuid
                 \* is read before it is bound
                 Raise(a.s, "UnboundLocalError", NoRecord)
            ELSE ReadBack(JsonConvertFromZfs(a.s, a.uuid, a.skip))
            : a \in {LocationLoop([s |-> s, out |-> "returned",
                                   conf |-> NoRecord, uuid |-> None,
                                   skip |-> FALSE],
                                  dataset, 1, s.location)} })

\* The end of json_load, the record having been read as r.
LoadRecord(r, depth) ==
    \* update_data(data)
    LET UpdateData(s, data) ==
            [s EXCEPT !.mem = data, !.loaded = TRUE]
    IN  IF r.out # "returned" THEN r
        ELSE IF Has(r.conf, "CONFIG_VERSION")
                /\ r.conf["CONFIG_VERSION"] = CONFIG_VERSION
        THEN Return(UpdateData(r.s, r.conf), r.conf, FALSE, FALSE, FALSE)
        ELSE The({IF c.out # "returned" THEN c
                  ELSE [c EXCEPT !.s = UpdateData(c.s, c.conf)] :
                  c \in {JsonCheckConfig(r.s, r.conf, FALSE, depth)}})

JsonLoad(s, depth) ==
    IF depth > MaxDepth THEN Raise(s, "RecursionError", NoRecord)
    ELSE IF s.location \notin s.ds THEN Raise(s, "ZFSException", NoRecord)
    ELSE The({IF r.out = "returned" THEN LoadRecord(r, depth)
              ELSE The({LoadRecord(i, depth) : i \in {LegacyImport(s)}}) :
              r \in {JsonRead(s, <<"config.json">>)}})

(***************************************************************************)
(* json_check_prop(key, value, conf): the str methods it applies, the      *)
(* catalog and the filesystem properties.                                  *)
(***************************************************************************)
Lowers ==
    <<"a","b","c","d","e","f","g","h","i","j","k","l","m","n","o","p","q",
      "r","s","t","u","v","w","x","y","z">>

Uppers ==
    <<"A","B","C","D","E","F","G","H","I","J","K","L","M","N","O","P","Q",
      "R","S","T","U","V","W","X","Y","Z">>

\* cs.lower()
Lower(cs) ==
    [i \in 1..Len(cs) |->
        IF \E n \in 1..Len(Uppers) : Uppers[n] = cs[i]
        THEN Lowers[CHOOSE n \in 1..Len(Uppers) : Uppers[n] = cs[i]]
        ELSE cs[i]]

\* cs.replace(a, b), for single characters.
Replace(cs, a, b) == [i \in 1..Len(cs) |-> IF cs[i] = a THEN b ELSE cs[i]]

\* cs.split(c)
RECURSIVE Split(_, _)
Split(cs, c) ==
    LET p == Partition(cs, c)
    IN  IF p[2] = <<>> THEN <<cs>> ELSE <<p[1]>> \o Split(p[3], c)

\* cs.split(): the runs of characters other than whitespace.
RECURSIVE SplitWs(_)
SplitWs(cs) ==
    LET body == Strip(cs)
        ws   == {i \in 1..Len(body) : body[i] \in Whitespace}
    IN  IF body = <<>> THEN <<>>
        ELSE IF ws = {} THEN <<body>>
        ELSE LET i == CHOOSE k \in ws : \A j \in ws : k <= j
             IN  <<SubSeq(body, 1, i - 1)>>
                 \o SplitWs(SubSeq(body, i + 1, Len(body)))

\* The keys of the dict zfs_props.
zfs_props ==
    {"compression", "origin", "quota", "mountpoint", "compressratio",
     "available", "used", "dedup", "reservation"}

\* The dict props: for each key, what a loop over props[key] yields.
catalog ==
    \* str(tuple(range(1, 100))), as the characters a loop over it yields.
    LET PriorityRule ==
            <<"(", "1", ",", " ", "2", "3", "4", "5", "6", "7", "8", "9", "0", ")">>
        ZeroOne ==
            {"ip4_saddrsel", "ip6_saddrsel", "exec_clean", "mount_devfs",
             "mount_fdescfs", "allow_set_hostname", "allow_sysvipc",
             "allow_raw_sockets", "allow_chflags", "allow_mlock",
             "allow_mount", "allow_mount_devfs", "allow_mount_nullfs",
             "allow_mount_procfs", "allow_mount_tmpfs", "allow_mount_zfs",
             "allow_quotas", "allow_socket_af", "mount_procfs",
             "mount_linprocfs", "allow_tun"}
        OffOn ==
            {"cpuset", "rlimits", "memorylocked", "vmemoryuse", "maxproc",
             "cputime", "datasize", "stacksize", "coredumpsize", "openfiles",
             "pseudoterminals", "swapuse", "nthr", "msgqqueued", "msgqsize",
             "nmsgq", "nsemop", "nshm", "shmsize", "wallclock", "dhcp", "boot",
             "jail_zfs", "vnet"}
        NoYes == {"bpf", "hostid_strict_check", "template", "host_time"}
        String ==
            {"host_domainname", "host_hostname", "exec_fib", "ip4_addr",
             "ip6_addr", "defaultrouter", "defaultrouter6", "resolver",
             "mac_prefix", "vnet0_mac", "vnet1_mac", "vnet2_mac", "vnet3_mac",
             "devfs_ruleset", "exec_start", "exec_stop", "exec_prestart",
             "exec_poststart", "exec_prestop", "exec_poststop", "exec_timeout",
             "stop_timeout", "exec_jail_user", "exec_system_jail_user",
             "exec_system_user", "children_max", "login_flags", "securelevel",
             "vnet_interfaces", "notes", "owner", "hostid", "jail_zfs_dataset",
             "jail_zfs_mountpoint", "vnet_default_interface", "comment",
             "depends"}
    IN  [k \in ZeroOne \cup OffOn \cup NoYes \cup String
                \cup {"interfaces", "ip4", "ip6", "enforce_statfs", "sysvmsg",
                      "sysvsem", "sysvshm", "memoryuse", "pcpu", "priority"} |->
            CASE k \in OffOn -> <<"off", "on">>
              [] k \in ZeroOne -> <<"0", "1">>
              [] k \in NoYes -> <<"no", "yes">>
              [] k \in String -> <<"string">>
              [] k = "interfaces" -> <<":", ",">>
              [] k \in {"ip4", "ip6"} -> <<"new", "inherit", "none">>
              [] k = "enforce_statfs" -> <<"0", "1", "2">>
              [] k \in {"sysvmsg", "sysvsem", "sysvshm"} ->
                   <<"new", "inherit", "disable">>
              \* The rule is the str ":", not a tuple.
              [] k \in {"memoryuse", "pcpu"} -> <<":">>
              [] k = "priority" -> PriorityRule]

\* What json_check_prop yields: the value and the record, or an exception.
PropResult(s, o, value, conf) ==
    [s |-> s, out |-> o, value |-> value, conf |-> conf]

\* json_check_prop leaves through logit with level EXCEPTION.
PropFails(s, msg, value, conf) ==
    PropResult(s, LogitException(s, msg, conf).out, value, conf)

\* A variant that takes every quota.
QuotaValid_Any(value) == TRUE

\* value == "none" or value.upper().endswith(("M", "G", "T"))
QuotaValid(value) ==
    \* cs.upper()
    LET Upper(cs) ==
            [i \in 1..Len(cs) |->
                IF \E n \in 1..Len(Lowers) : Lowers[n] = cs[i]
                THEN Uppers[CHOOSE n \in 1..Len(Lowers) : Lowers[n] = cs[i]]
                ELSE cs[i]]
    IN  \* cs.endswith(tuple of one-character strings)
        LET EndsWith(cs, ends) ==
                Len(cs) >= 1 /\ cs[Len(cs)] \in ends
        IN  value = "none" \/ EndsWith(Upper(Chars(value)), {"M", "G", "T"})

\* zfs_set_property(f"{self.root_dataset.name}/{_type}/{uuid}", key, value)
ZfsSetProperty(s, type, uuid, key, value) ==
    IF uuid \notin (IF type = "templates" THEN s.tds ELSE s.ds)
    THEN [s |-> s, out |-> "ZFSException"]
    ELSE [s |-> [s EXCEPT !.calls =
                     Append(@, <<"zfs_set_property", type, uuid, key, value>>)],
          out |-> "returned"]

\* The first loop of the catalog branch.
RuleAccepts(rule, value) ==
    \* k in value, for two strings: k occurs in value.
    LET Contains(value_, k) ==
            \E i \in 0..(Len(value_) - Len(k)) : SubSeq(value_, i + 1, i + Len(k)) = k
    IN  \E n \in 1..Len(rule) : Contains(Chars(value), Chars(rule[n]))

MacPairValid(value) ==
    \* The vnetN_mac step: the value with "," replaced, and whether it is two
    \* well-formed and different addresses.
    LET MacParts(value_) ==
            SplitWs(Replace(Chars(value_), ",", " "))
    IN  \* re.match("[0-9a-f]{2}([-:]?)[0-9a-f]{2}(\\1[0-9a-f]{2}){4}$", cs): six
        \* pairs of hexadecimal digits, the same separator, or none, between them.
        LET MacMatch(cs) ==
                LET HexDigit ==
                        Digit \cup {"a", "b", "c", "d", "e", "f"}
                IN  \E sep \in {<<>>, <<"-">>, <<":">>} :
                        LET step == 2 + Len(sep)
                        IN  /\ Len(cs) = 12 + 5 * Len(sep)
                            /\ \A n \in 0..5 :
                                  /\ cs[n * step + 1] \in HexDigit
                                  /\ cs[n * step + 2] \in HexDigit
                            /\ \A n \in 0..4 :
                                  SubSeq(cs, n * step + 3, n * step + 2 + Len(sep)) = sep
        IN  LET parts == MacParts(value)
            IN  /\ \A n \in 1..Len(parts) : MacMatch(Lower(parts[n]))
                /\ Len(parts) = 2
                /\ \A n \in 1..Len(parts) :
                      Cardinality({m \in 1..Len(parts) : parts[m] = parts[n]}) <= 1

\* The branch for a key of the catalog whose rule is ("string", ).
StringProp(s, key, value, conf) ==
    \* The ip4_addr step: DEFAULT becomes the interface of the default route.
    LET Ip4Value(value_) ==
            \* netifaces.gateways()["default"][netifaces.AF_INET][1]
            LET def_iface ==
                    "em0"
            IN  LET parts == Split(Chars(value_), "|")
                IN  IF Len(parts) = 2 /\ StrOf(parts[1]) = "DEFAULT"
                    THEN StrOf(Chars(def_iface) \o <<"|">> \o parts[2])
                    ELSE value_
    IN  IF key = "ip4_addr"
        THEN LET v == Ip4Value(value)
             IN  PropResult(s, "returned", v,
                            IF v = value THEN conf ELSE Put(conf, key, v))
        ELSE IF key \in {"vnet0_mac", "vnet1_mac", "vnet2_mac", "vnet3_mac"}
        THEN IF value # "" /\ value # "none"
             THEN IF MacPairValid(value)
                  THEN PropResult(s, "returned",
                                  StrOf(Replace(Chars(value), ",", " ")), conf)
                  ELSE PropFails(s, "InvalidValue", value, conf)
             ELSE PropResult(s, "returned", "none", conf)
        ELSE PropResult(s, "returned", value, conf)

\* The branch for a key of zfs_props.  conf is self when isself.
ZfsProp(s, key, value, conf, isself) ==
    IF ~isself /\ ~Has(conf, "template")
    THEN PropResult(s, "KeyError", value, conf)
    ELSE The({
        IF u.out # "returned" THEN PropResult(u.s, u.out, value, conf)
        ELSE IF key = "quota" /\ ~QuotaValid(value)
        THEN PropFails(u.s, "InvalidValue", value, conf)
        ELSE The({ PropResult(z.s, z.out, value, conf) :
                   z \in {ZfsSetProperty(u.s,
                              IF (IF isself THEN ReadKey(u.s.mem, "template")
                                  ELSE conf["template"]) = "yes"
                              THEN "templates" ELSE "jails",
                              u.val, key, value)} })
        : u \in {GetItem(s, "host_hostuuid", 0)} })

JsonCheckProp(s, key, value, conf, isself) ==
    \* The branch for a key in neither dict.
    LET UnknownProp(s_, key_, value_, conf_) ==
            IF cli THEN PropFails(s_, "UnknownProperty", value_, conf_)
            ELSE IF ~Has(conf_, key_) THEN PropFails(s_, "UnknownProperty", value_, conf_)
            ELSE PropResult(s_, "returned", value_, conf_)
    IN  IF key \in zfs_props THEN ZfsProp(s, key, value, conf, isself)
        ELSE IF key \in DOMAIN catalog
        THEN IF RuleAccepts(catalog[key], value)
             THEN PropResult(s, "returned", value, conf)
             ELSE IF catalog[key][1] = "string"
             THEN StringProp(s, key, value, conf)
             ELSE PropFails(s, "InvalidValue", value, conf)
        ELSE UnknownProp(s, key, value, conf)

(***************************************************************************)
(* json_set_value(prop)                                                    *)
(***************************************************************************)
\* The state json_set_value works on: the jail's and the template datasets.
CurSet ==
    [loaded |-> loaded, mem |-> mem, location |-> location, cfg |-> cfg,
     fstab |-> fstab, ds |-> ds, snaps |-> snaps, props |-> props,
     calls |-> <<>>, via |-> <<>>, tds |-> tds]

SetResult(s, o) == [s |-> s, out |-> o]

\* IOCList("uuid").list_datasets(): the mountpoint of each jail and each
\* template, by name.  A path is the tuple of its components.
ListDatasets(s) ==
    [j \in s.ds \cup s.tds |->
        <<"", "iocage", IF j \in s.ds THEN "jails" ELSE "templates", j>>]

\* The loop over the jails: a jail cloned from this one is running.
CloneRunning(s, uuid) ==
    \* The origin property of the dataset <pool>/iocage/jails/<n>/root: the
    \* jail CloneName is a clone of the snapshot root@CloneName of the jail UUID.
    LET NoOrigin ==
            <<"-">>
    IN  \* zfs_get_property(identifier, "origin"): "-" when the lookup raises, as
        \* it does for an identifier that does not start with the name of a pool.
        LET ZfsGetOrigin(s_, identifier) ==
                LET Origin(n) ==
                        IF n = CloneName
                        THEN <<PoolName, "iocage", "jails", UUID, "root", "@", <<n>>>>
                        ELSE NoOrigin
                IN  IF Len(identifier) = 5 /\ identifier[1] = PoolName
                       /\ identifier[3] = "jails" /\ identifier[4] \in s_.ds
                       /\ identifier[5] = "root"
                    THEN Origin(identifier[4])
                    ELSE NoOrigin
        IN  LET jails == ListDatasets(s)
            IN  \E j \in DOMAIN jails :
                    LET _uuid == jails[j]
                        _path == jails[j] \o <<"root">>
                        t_old_path ==
                            <<PoolName, "iocage", "jails", uuid, "root", "@", _uuid>>
                        t_path ==
                            <<PoolName, "iocage", "templates", uuid, "root", "@",
                              _uuid>>
                        origin == ZfsGetOrigin(s, _path)
                    IN  /\ _uuid # <<uuid>>
                        /\ origin \in {t_old_path, t_path}
                        /\ ListGetJid(_uuid)

\* The name of the key as a jail parameter.
ParamName(key) ==
    LET single_period ==
            {"allow_raw_sockets", "allow_socket_af", "allow_set_hostname"}
    IN  \* cs.replace(a, b, 1)
        LET ReplaceFirst(cs, a, b) ==
                LET at == {i \in 1..Len(cs) : cs[i] = a}
                IN  IF at = {} THEN cs
                    ELSE [cs EXCEPT ![CHOOSE k \in at : \A j \in at : k <= j] = b]
        IN  IF key \in single_period
            THEN StrOf(ReplaceFirst(Chars(key), "_", "."))
            ELSE StrOf(Replace(Chars(key), "_", "."))

\* self.json_write(conf) for a jail or a template.
SetWrite(s, data) ==
    IF s.location \in s.tds
    THEN Return([s EXCEPT !.cfg = Put(s.cfg, s.location, data),
                          !.calls = Append(s.calls,
                                           <<"write_config", s.location>>)],
                data, FALSE, FALSE, FALSE)
    ELSE JsonWrite(s, data)

\* A variant that makes the attempt whatever the jail's state and the key.
LiveUpdate_Unconditional(s, status, key, value, conf, ok) ==
    SetResult([s EXCEPT !.calls =
                  Append(@, <<"jail -m", ParamName(key), value>>)],
              IF ok THEN "returned" ELSE "RuntimeError")

\* The attempt to set the parameter of the running jail; ok: jail -m
\* succeeds.
LiveUpdate(s, status, key, value, conf, ok) ==
    \* The parameters `sysctl -d security.jail.param` lists.
    LET jail_params ==
            {"allow.raw_sockets", "allow.mount.zfs", "host.hostname", "ip4.addr",
             "vnet"}
    IN  LET param == ParamName(key)
            ip == param \in {"ip4.addr", "ip6.addr"}
            tried == [s EXCEPT !.calls = Append(@, <<"jail -m", param, value>>)]
        IN  IF ~status \/ param \notin jail_params THEN SetResult(s, "returned")
            ELSE IF (ReadKey(conf, "vnet") = "on" /\ param = "ip4.addr")
                    \/ param = "ip6.addr"
            THEN SetResult(s, "returned")
            ELSE IF ip /\ StrOf(Lower(Chars(value))) = "none"
            THEN SetResult(s, "returned")
            ELSE IF param = "vnet" THEN SetResult(s, "returned")
            ELSE IF ok THEN SetResult(tried, "returned")
            ELSE SetResult(tried, "RuntimeError")

\* value, conf = self.json_check_prop(key, value, self); json_write(conf);
\* the live update.
CheckWriteAndUpdate(s, status, key, value, ok) ==
    The({
        IF r.out # "returned" THEN SetResult(r.s, r.out)
        ELSE The({ IF w.out # "returned" THEN SetResult(w.s, w.out)
                   ELSE LiveUpdate(w.s, status, key, r.value, r.conf, ok) :
                   w \in {SetWrite([r.s EXCEPT !.mem = r.conf], r.conf)} })
        : r \in {JsonCheckProp(s, key, value, s.mem, TRUE)} })

\* key == "template" and value == "yes": the dataset moves to templates/;
\* conf["type"] = "template" then reads conf, a local name that is bound
\* only further down.
MakeTemplate(s, uuid) ==
    LET j  == IF uuid \in s.ds
              THEN [s EXCEPT !.calls =
                       Append(@, <<"zfs_set_property", "jails", uuid,
                                   "jailed", "off">>)]
              ELSE s
    IN  IF uuid \notin j.ds
        THEN SetResult(j, LogitException(j, "ZFSException", NoRecord).out)
        ELSE SetResult([j EXCEPT !.ds = @ \ {uuid}, !.tds = @ \cup {uuid},
                                 !.calls = Append(@, <<"rename", "jails",
                                                       "templates", uuid>>)],
                       "UnboundLocalError")

\* key == "template" and value == "no", not an import.
MakeJail(s, uuid) ==
    IF uuid \notin s.tds THEN SetResult(s, "ZFSException")
    ELSE SetResult([s EXCEPT !.tds = @ \ {uuid}, !.ds = @ \cup {uuid},
                             !.calls = Append(@, <<"rename", "templates",
                                                   "jails", uuid>>)],
                   "UnboundLocalError")

\* json_set_value(f"{key}={value}"); ok: a jail -m it runs succeeds.
JsonSetValue(s0, key, value, ok) ==
    \* key[:8] == "jail_zfs" or key == "dhcp": not to be set on a running jail.
    LET GuardedKey(key_) ==
            \/ /\ Len(Chars(key_)) >= 8
               /\ SubSeq(Chars(key_), 1, 8) = Chars("jail_zfs")
            \/ key_ = "dhcp"
    IN  The({
        IF u.out # "returned" THEN SetResult(u.s, u.out)
        ELSE
        LET uuid == u.val
            status == ListGetJid(uuid)
            s == [u.s EXCEPT !.mem = Put(@, key, value)]
        IN  IF key = "template" /\ status
            THEN SetResult(s, LogitException(s, "JailRunning", NoRecord).out)
            ELSE IF key = "template" /\ CloneRunning(s, uuid)
            THEN SetResult(s, LogitException(s, "JailRunning", NoRecord).out)
            ELSE IF key = "template" /\ value = "yes"
            THEN MakeTemplate(s, uuid)
            ELSE IF key = "template" /\ value = "no"
            THEN MakeJail(s, uuid)
            ELSE IF GuardedKey(key) /\ status
            THEN SetResult(s, LogitException(s, "JailRunning", NoRecord).out)
            ELSE CheckWriteAndUpdate(s, status, key, value, ok)
        : u \in {GetItem(s0, "host_hostuuid", 0)} })

(***************************************************************************)
(* The state after construction, and the environment the jail lives in.    *)
(***************************************************************************)

\* No legacy file <location>/config.
NoFlat == [exists |-> FALSE, lines |-> <<>>]

\* Legacy files: key="value"; lines only; with a comment and an empty line;
\* with blanks around the "=".
FlatFiles ==
    \* The line  key="value";  of a legacy configuration file.
    LET Line(key, value) ==
            Chars(key) \o <<"=", "\"">> \o Chars(value) \o <<"\"", ";", "\n">>
    IN  {[exists |-> TRUE,
          lines |-> <<Line("release", "11.2-RELEASE-p4"),
                      Line("host_hostuuid", UUID),
                      Line("host_hostname", UUID)>>],
         [exists |-> TRUE,
          lines |-> <<Chars("# legacy") \o <<"\n">>,
                      Line("release", "11.2-RELEASE-p4"),
                      <<"\n">>,
                      Line("host_hostuuid", UUID),
                      Line("host_hostname", HostName)>>],
         [exists |-> TRUE,
          lines |-> <<Chars("release") \o <<" ", "=", " ", "\"">>
                          \o Chars("9.3-RELEASE") \o <<"\"", ";", "\n">>,
                      Line("host_hostuuid", UUID),
                      Line("release", "11.2-RELEASE-p4")>>]}

\* A property of the dataset that is none of iocage's.
NativeProp == Prop("", "compression", "lz4")

\* The properties of a dataset that holds no legacy configuration.
PlainProps ==
    [items |-> <<NativeProp>>, byvalue |-> FALSE, rootdata |-> FALSE,
     data |-> FALSE, jailed |-> "on", failat |-> 0,
     mount |-> <<"", "iocage">>]

LegacyProps ==
    \* The enumerations of legacy properties: without a hostname property,
    \* with one after and before host_hostname, with a host_hostname the user
    \* has set, with both equal, and with no host_hostname at all.
    LET LegacyItems ==
            LET u  == Prop(prop_prefix, "host_hostuuid", UUID)
                r  == Prop(prop_prefix, "release", "11.2-RELEASE-p4")
                hn(v) == Prop(prop_prefix, "host_hostname", v)
                h(v)  == Prop(prop_prefix, "hostname", v)
                ty(v) == Prop(prop_prefix, "type", v)
            IN  {<<NativeProp, u, hn(UUID), r, ty("jail")>>,
                 <<u, hn(UUID), h(HostName), r, ty("basejail")>>,
                 <<u, h(HostName), hn(UUID), r, ty("jail")>>,
                 <<u, hn(HostName), h(TagName), r, ty("jail")>>,
                 <<u, h(UUID), hn(UUID), r, ty("jail")>>,
                 <<u, h(HostName), r, ty("jail")>>}
    IN  {[items |-> i, byvalue |-> b, rootdata |-> d,
          data |-> FALSE, jailed |-> "on", failat |-> 0,
     mount |-> <<"", "iocage">>] :
            i \in LegacyItems, b \in BOOLEAN, d \in BOOLEAN}

(***************************************************************************)
(* The text of config.json: json_write, json_read and a crash of the       *)
(* writing process, one write call at a time.                              *)
(***************************************************************************)
ConfigPath == "config.json"

\* The file open_atomic writes to before it puts it in place.
TempPath == "config.json.tmp"

AbsentFile == [exists |-> FALSE, text |-> <<>>]

File(text) == [exists |-> TRUE, text |-> text]

\* json.dump(data, out, sort_keys=True, ...): the write calls it makes.
Dump(data) ==
    \* One write call of json.dump: a brace, or a key with its value.
    LET Chunk(t, k, v) ==
            [t |-> t, k |-> k, v |-> v]
    IN  LET SortedKeys(data_) ==
                \* The keys of the records written, in the order of sort_keys=True.
                LET KeyOrder ==
                        <<"", "# legacy", "CONFIG_VERSION", "host_hostname", "host_hostuuid",
                          "release", "tag">>
                IN  SelectSeq(KeyOrder, LAMBDA k : k \in DOMAIN data_)
        IN  LET keys == SortedKeys(data)
            IN  <<Chunk("{", "", "")>>
                \o [i \in 1..Len(keys) |-> Chunk("pair", keys[i], data[keys[i]])]
                \o <<Chunk("}", "", "")>>

\* json.load(f): the record of a well-formed text, a later pair winning.
Load(text) ==
    LET pairs == 2..(Len(text) - 1)
        last(k) == CHOOSE i \in pairs :
                      /\ text[i].k = k
                      /\ \A j \in pairs : text[j].k = k => j <= i
    IN  [k \in {text[i].k : i \in pairs} |-> text[last(k)].v]

NotRead == [out |-> None, conf |-> NoRecord]

\* json_read("/config.json") of the file f.
JsonReadText(f) ==
    \* json.load accepts the text.
    LET WellFormed(text) ==
            /\ Len(text) >= 2
            /\ text[1].t = "{"
            /\ text[Len(text)].t = "}"
            /\ \A i \in 2..(Len(text) - 1) : text[i].t = "pair"
    IN  IF ~f.exists THEN [out |-> "FileNotFoundError", conf |-> NoRecord]
        ELSE IF ~WellFormed(f.text)
        THEN [out |-> "JSONDecodeError", conf |-> NoRecord]
        ELSE [out |-> "returned", conf |-> Load(f.text)]

\* open_atomic(filepath, 'w') on entry: a new, empty file beside filepath.
OpenAtomic(d) == [d EXCEPT ![TempPath] = File(<<>>)]

\* open_atomic on leaving the with block: the file is renamed to filepath.
CloseAtomic(d) == [d EXCEPT ![ConfigPath] = d[TempPath], ![TempPath] = AbsentFile]

\* A variant of json_write that writes to filepath itself.
JsonWriteOut_FilePath(w) == ConfigPath

\* The file object json_write dumps to: the one open_atomic has yielded.
JsonWriteOut(w) == w.yielded

\* The records json_write is given: those of the flat-text importer.
WrittenRecords == {UclRecord(f.lines) : f \in FlatFiles}

\* config.json as the file f, nobody writing or reading it.
InitFile(f) ==
    LET NoWriter ==
            [pc |-> "idle", left |-> <<>>, yielded |-> None, before |-> AbsentFile,
             data |-> NoRecord]
    IN  /\ disk = [p \in {ConfigPath, TempPath} |->
                     IF p = ConfigPath THEN f ELSE AbsentFile]
        /\ writer = [NoWriter EXCEPT !.before = f]
        /\ seen = NotRead

\* json_write(data) enters the with block.
WriteOpen(data) ==
    /\ writer.pc = "idle"
    /\ disk' = OpenAtomic(disk)
    /\ writer' = [pc |-> "writing", left |-> Dump(data), yielded |-> TempPath,
                  before |-> disk[ConfigPath], data |-> data]
    /\ seen' = NotRead
    /\ UNCHANGED <<jail, host>>

\* json.dump makes its next write call.
WriteChunk ==
    /\ writer.pc = "writing"
    /\ writer.left # <<>>
    /\ disk' = [disk EXCEPT ![JsonWriteOut(writer)] =
                               File(Append(@.text, Head(writer.left)))]
    /\ writer' = [writer EXCEPT !.left = Tail(@)]
    /\ UNCHANGED <<seen, jail, host>>

\* json.dump has returned and the with block is left.
WriteClose ==
    /\ writer.pc = "writing"
    /\ writer.left = <<>>
    /\ disk' = CloseAtomic(disk)
    /\ writer' = [writer EXCEPT !.pc = "idle"]
    /\ UNCHANGED <<seen, jail, host>>

\* The writing process dies inside the with block.
Crash ==
    /\ writer.pc = "writing"
    /\ writer' = [writer EXCEPT !.pc = "idle", !.left = <<>>]
    /\ UNCHANGED <<disk, seen, jail, host>>

\* Another process calls json_read("/config.json").
Read ==
    /\ seen' = JsonReadText(disk[ConfigPath])
    /\ UNCHANGED <<disk, writer, jail, host>>

\* A jail with a config.json.
InitStored ==
    \* The freebsd-version files that may exist: none, those of the fetched
    \* releases, also the one of the host's release, and the jail's own as a
    \* template.
    LET MarkerSets ==
            {{},
             {<<"releases", "11.2-RELEASE">>, <<"releases", "9.3-RELEASE">>},
             {<<"releases", "11.2-RELEASE">>, <<"releases", "9.3-RELEASE">>,
              <<"releases", "12.0-RELEASE">>},
             {<<"templates", UUID>>}}
    IN  \* What an earlier, interrupted migration of the jail to the tag TagName
        \* has left: nothing, its snapshot, or the snapshot and the cloned tree.
        LET Leftovers ==
                {"nothing", "snapshot", "clone"}
        IN  LET StoredRecords ==
                    LET CurrentRecords ==
                            {CurrentRecord(hu) : hu \in HostUuids}
                    IN  OldRecords \cup CurrentRecords
            IN  /\ root \/ force
                /\ stop => (root /\ force)
                /\ running \in {{}, {UUID}}
                /\ markers \in MarkerSets
                /\ \E rec \in StoredRecords : cfg = [n \in {UUID} |-> rec]
                /\ \E left \in Leftovers :
                      /\ snaps = IF left = "nothing" THEN {} ELSE {<<UUID, TagName>>}
                      /\ ds = IF left = "clone" THEN {UUID, TagName} ELSE {UUID}
                      /\ fstab = IF left = "clone"
                                 THEN [n \in {UUID, TagName} |-> <<UUID>>]
                                 ELSE [n \in {UUID} |-> <<UUID>>]
                /\ flat = NoFlat
                /\ props = PlainProps

\* A jail without one: a legacy jail, or a jail with no configuration.
InitLegacy ==
    /\ ~stop
    /\ running = {}
    /\ markers = {<<"releases", "11.2-RELEASE">>, <<"releases", "9.3-RELEASE">>}
    /\ cfg = [n \in {} |-> NoRecord]
    /\ snaps = {}
    /\ ds = {UUID}
    /\ fstab = [n \in {UUID} |-> <<UUID>>]
    /\ flat \in FlatFiles \cup {NoFlat}
    /\ props \in LegacyProps \cup {PlainProps}

\* No key and no value.
NoProp == <<None, None>>

\* A pool of the host: its name and the two properties pool looks at.
Pool(name, active, comment) ==
    [name |-> name, active |-> active, comment |-> comment]

\* The host of the jail: one pool, marked active, and a caller that is not
\* the command line.
InitHost ==
    /\ cli = FALSE
    /\ prop = NoProp
    /\ sets = 0
    /\ tds = {}
    /\ zpools = [list |-> <<Pool(PoolName, "yes", "-")>>, byobject |-> FALSE]

\* A new IOCJson object, before its first operation.
InitObject ==
    /\ via = <<>>
    /\ loaded = FALSE
    /\ mem = Empty
    /\ location = UUID
    /\ op = "init"
    /\ out = None
    /\ arg = NoRecord
    /\ ret = NoRecord
    /\ flags = NoFlags
    /\ calls = <<>>
    /\ fresh = FALSE
    /\ pending = FALSE
    /\ retry = FALSE

Init ==
    /\ root \in BOOLEAN
    /\ force \in BOOLEAN
    /\ stop \in BOOLEAN
    /\ InitStored \/ InitLegacy
    /\ InitObject
    /\ InitFile(AbsentFile)
    /\ InitHost

\* The object and the storage after an operation that ended in state s.
Becomes(s) ==
    /\ loaded' = s.loaded
    /\ mem' = s.mem
    /\ location' = s.location
    /\ cfg' = s.cfg
    /\ fstab' = s.fstab
    /\ ds' = s.ds
    /\ snaps' = s.snaps
    /\ props' = s.props
    /\ calls' = s.calls
    /\ via' = s.via

\* json_load()
JsonLoadCall ==
    \E r \in {JsonLoad(Cur, 1)} :
        /\ Becomes(r.s)
        /\ op' = "load"
        /\ out' = r.out
        /\ arg' = IF HasFile(cfg, location) THEN cfg[location] ELSE NoRecord
        /\ ret' = IF r.out = "returned" THEN r.s.mem ELSE r.conf
        /\ flags' = NoFlags
        /\ fresh' = ~loaded
        /\ retry' = (pending /\ location \notin running)
        /\ pending' = IF r.out = "returned" THEN r.early ELSE pending
        \* IOCStop(full_uuid, ...) of the hack88 migration
        /\ running' = running \ {r.s.calls[i][2] : i \in
                                    {n \in 1..Len(r.s.calls) :
                                        r.s.calls[n][1] = "IOCStop"}}
        /\ UNCHANGED <<textfile, host, root, stop, force, markers, flat>>

\* json_check_config(conf, default)
JsonCheckConfigCall(conf, default) ==
    \E r \in {JsonCheckConfig(Cur, conf, default, 0)} :
        /\ Becomes(r.s)
        /\ op' = "check"
        /\ out' = r.out
        /\ arg' = conf
        /\ ret' = r.conf
        /\ flags' = NoFlags
        /\ fresh' = ~loaded
        /\ retry' = FALSE
        /\ pending' = IF r.out = "returned" THEN r.early ELSE pending
        /\ UNCHANGED <<textfile, host, root, stop, force, running, markers, flat>>

\* json_migrate_uuid_to_tag(uuid, tag, state, conf), called as
\* json_check_config calls it: with the record's tag and the state of jls.
JsonMigrateCall(uuid, conf) ==
    \E r \in {JsonMigrateUuidToTag(Cur, uuid, conf["tag"], JlsState(uuid), conf)} :
        /\ Becomes(r.s)
        /\ op' = "migrate"
        /\ out' = r.out
        /\ arg' = conf
        /\ ret' = r.conf
        /\ flags' = IF r.out = "returned" THEN <<r.rtrn, r.date>> ELSE NoFlags
        /\ fresh' = ~loaded
        /\ retry' = FALSE
        /\ pending' = pending
        /\ UNCHANGED <<textfile, host, root, stop, force, running, markers, flat>>

\* Nothing of the last operation is left to observe.
Forget ==
    /\ out' = None
    /\ arg' = NoRecord
    /\ ret' = NoRecord
    /\ flags' = NoFlags
    /\ calls' = <<>>
    /\ via' = <<>>
    /\ fresh' = FALSE
    /\ retry' = FALSE

\* The environment puts an older config.json back (a rollback of the
\* dataset to a snapshot): json_read returns what the file holds when it is
\* called.
Rollback(rec) ==
    /\ HasFile(cfg, UUID)
    /\ Get(cfg[UUID], "CONFIG_VERSION", None) = CONFIG_VERSION
    /\ cfg' = Put(cfg, UUID, rec)
    /\ op' = "rollback"
    /\ pending' = FALSE
    /\ Forget
    /\ UNCHANGED <<textfile, host, root, stop, force, running, markers, fstab, ds, snaps,
                   flat, props, loaded, mem, location>>

\* The jail is started: jls reports it.
JailStart ==
    /\ UUID \notin running
    /\ running' = running \cup {UUID}
    /\ op' = "start"
    /\ Forget
    /\ UNCHANGED <<textfile, host, root, stop, force, markers, cfg, fstab, ds, snaps, flat,
                   props, loaded, mem, location, pending>>

\* The jail is stopped: jls fails for it.
JailStop ==
    /\ UUID \in running
    /\ running' = running \ {UUID}
    /\ op' = "stop"
    /\ Forget
    /\ UNCHANGED <<textfile, host, root, stop, force, markers, cfg, fstab, ds, snaps, flat,
                   props, loaded, mem, location, pending>>

Next ==
    \* The records json_migrate_uuid_to_tag is called with: the stored record,
    \* when it has a tag other than the jail's name.
    LET MigrateInputs ==
            IF HasFile(cfg, location) /\ Has(cfg[location], "tag")
               /\ cfg[location]["tag"] # location
            THEN {cfg[location]} ELSE {}
    IN  \* The records json_check_config is called with: the stored record, as
        \* json_load calls it, or the record it has just returned after a complete
        \* upgrade.
        LET CheckInputs ==
                (IF HasFile(cfg, location) THEN {cfg[location]} ELSE {})
                \cup (IF op = "check" /\ out = "returned" /\ ~pending THEN {ret} ELSE {})
        IN  \/ JsonLoadCall
            \/ \E conf \in CheckInputs, default \in BOOLEAN :
                  JsonCheckConfigCall(conf, default)
            \/ \E conf \in MigrateInputs : JsonMigrateCall(location, conf)
            \/ \E rec \in OldRecords : Rollback(rec)
            \/ JailStart
            \/ JailStop

Spec == Init /\ [][Next]_vars

\* A jail at rest whose config.json, if it has one, was written by
\* json_write.
InitWrite ==
    /\ root = TRUE
    /\ force = TRUE
    /\ stop = FALSE
    /\ InitLegacy
    /\ flat = NoFlat
    /\ props = PlainProps
    /\ InitObject
    /\ InitHost
    /\ \E f \in {AbsentFile} \cup {File(Dump(r)) : r \in WrittenRecords} :
          InitFile(f)

NextWrite ==
    \/ \E data \in WrittenRecords : WriteOpen(data)
    \/ WriteChunk
    \/ WriteClose
    \/ Crash
    \/ Read

SpecWrite == InitWrite /\ [][NextWrite]_vars

(***************************************************************************)
(* A jail or a template with a current record, and the calls that set and  *)
(* check its properties.                                                   *)
(***************************************************************************)

InitSet ==
    \* The record of a template.
    LET TemplateRecord ==
            Put(Put(CurrentRecord(UUID), "template", "yes"), "type", "template")
    IN  /\ root = TRUE
        /\ force = TRUE
        /\ stop = FALSE
        /\ running \in SUBSET {UUID, CloneName}
        /\ markers = {<<"releases", "11.2-RELEASE">>}
        /\ snaps = {<<UUID, CloneName>>}
        /\ fstab = [n \in {UUID} |-> <<UUID>>]
        /\ flat = NoFlat
        /\ props = PlainProps
        /\ InitFile(AbsentFile)
        /\ location = UUID
        /\ via = <<>>
        /\ op = "init"
        /\ out = None
        /\ arg = NoRecord
        /\ ret = NoRecord
        /\ flags = NoFlags
        /\ calls = <<>>
        /\ fresh = FALSE
        /\ pending = FALSE
        /\ retry = FALSE
        /\ prop = NoProp
        /\ sets = 0
        /\ zpools = [list |-> <<Pool(PoolName, "yes", "-")>>, byobject |-> FALSE]
        /\ cli \in BOOLEAN
        /\ \/ /\ ds = {UUID, CloneName}
              /\ tds = {}
              /\ cfg = [n \in {UUID} |-> CurrentRecord(UUID)]
              /\ loaded \in BOOLEAN
           \/ /\ ds = {CloneName}
              /\ tds = {UUID}
              /\ cfg = [n \in {UUID} |-> TemplateRecord]
              /\ loaded = TRUE
        /\ mem = IF loaded THEN cfg[UUID] ELSE Empty

\* The records json_check_prop is given: the stored one, with a template
\* key that tells where the dataset is.
PropRecords ==
    IF HasFile(cfg, location)
    THEN {Put(cfg[location], "template",
              IF location \in tds THEN "yes" ELSE "no")}
    ELSE {}

\* The state after json_set_value or json_check_prop.
BecomesSet(s) ==
    /\ Becomes(s)
    /\ tds' = s.tds

\* json_set_value(f"{key}={value}")
JsonSetValueCall(key, value, ok) ==
    /\ sets < MaxSets
    /\ \E r \in {JsonSetValue(CurSet, key, value, ok)} :
          /\ BecomesSet(r.s)
          /\ out' = r.out
    /\ op' = "set"
    /\ prop' = <<key, value>>
    /\ sets' = sets + 1
    /\ arg' = IF HasFile(cfg, location) THEN cfg[location] ELSE NoRecord
    /\ ret' = NoRecord
    /\ flags' = NoFlags
    /\ fresh' = ~loaded
    /\ UNCHANGED <<textfile, cli, zpools, root, stop, force, running, markers,
                   flat, pending, retry>>

\* json_check_prop(key, value, conf), conf a record or, isself, the object.
JsonCheckPropCall(key, value, conf, isself) ==
    /\ sets < MaxSets
    /\ \E r \in {JsonCheckProp(CurSet, key, value, conf, isself)} :
          /\ BecomesSet(IF isself /\ r.out = "returned"
                        THEN [r.s EXCEPT !.mem = r.conf] ELSE r.s)
          /\ out' = r.out
          /\ ret' = r.conf
          /\ flags' = IF r.out = "returned" THEN <<r.value>> ELSE NoFlags
    /\ op' = "prop"
    /\ prop' = <<key, value>>
    /\ arg' = conf
    /\ sets' = sets + 1
    /\ fresh' = ~loaded
    /\ UNCHANGED <<textfile, cli, zpools, root, stop, force, running,
                   markers, flat, pending, retry>>

NextSet ==
    \* The properties json_check_prop is called with.
    LET PropInputs ==
            {<<"quota", "10G">>, <<"quota", "10g">>, <<"quota", "10X">>,
             <<"quota", "none">>, <<"quota", "">>, <<"compression", "lz4">>,
             <<"boot", "on">>, <<"boot", "off">>, <<"boot", "maybe">>,
             <<"allow_mlock", "0">>, <<"allow_mlock", "1">>, <<"allow_mlock", "2">>,
             <<"allow_mlock", "10">>, <<"template", "x">>,
             <<"priority", "5">>, <<"priority", "100">>, <<"priority", "x">>,
             <<"ip4_addr", "em0|10.0.0.2">>, <<"ip4_addr", "DEFAULT|10.0.0.2">>,
             <<"notes", "hello">>, <<"foo", "bar">>,
             <<"vnet0_mac", "none">>, <<"vnet0_mac", "">>, <<"vnet0_mac", "string">>,
             <<"vnet0_mac", "02:ff:60:00:01:01,02:ff:60:00:01:02">>,
             <<"vnet0_mac", "02:ff:60:00:01:01 02:ff:60:00:01:02">>,
             <<"vnet0_mac", "02:ff:60:00:01:01,02:ff:60:00:01:01">>,
             <<"vnet0_mac", "02:ff:60:00:01:01">>,
             <<"vnet0_mac", "02:ff:60:00:01:01,02:ff:60:00:01:02,02ff60000103">>,
             <<"vnet0_mac", "02:ff-60:00:01:01,02:ff:60:00:01:02">>,
             <<"vnet0_mac", "02:FF:60:00:01:01,02:ff:60:00:01:01">>}
    IN  \* The properties json_set_value is called with.
        LET SetInputs ==
                {<<"quota", "10G">>, <<"quota", "10X">>, <<"compression", "lz4">>,
                 <<"boot", "on">>, <<"boot", "maybe">>, <<"allow_mlock", "10">>,
                 <<"dhcp", "on">>, <<"jail_zfs", "on">>,
                 <<"jail_zfs_dataset", "iocage/jails/web/data">>,
                 <<"template", "yes">>, <<"template", "no">>,
                 <<"notes", "hello">>, <<"host_hostname", "myhost">>,
                 <<"allow_raw_sockets", "1">>, <<"allow_mount_zfs", "1">>,
                 <<"vnet", "on">>, <<"ip4_addr", "none">>,
                 <<"ip4_addr", "DEFAULT|10.0.0.2">>, <<"foo", "bar">>,
                 <<"type", "jail">>, <<"vnet0_mac", "">>,
                 <<"vnet0_mac", "02:ff:60:00:01:01,02:ff:60:00:01:02">>}
        IN  \/ \E p \in SetInputs, ok \in BOOLEAN : JsonSetValueCall(p[1], p[2], ok)
            \/ \E p \in PropInputs : \E conf \in PropRecords :
                  JsonCheckPropCall(p[1], p[2], conf, FALSE)
            \/ \E p \in PropInputs : loaded /\ JsonCheckPropCall(p[1], p[2], mem, TRUE)

SpecSet == InitSet /\ [][NextSet]_vars

(***************************************************************************)
(* The pool property: the pool iocage uses, among list(self.zfs.pools).    *)
(***************************************************************************)

\* The pools the loop counts, and those it counts for their comment.
CountedPools(z) ==
    \* zfs_get_property(pool, "comment"): the identifier is the pool object, not
    \* its name; the lookup gives the property or, when it raises, "-".
    LET ReadComment(z_, p) ==
            IF z_.byobject THEN p.comment ELSE "-"
    IN  {i \in 1..Len(z.list) :
            z.list[i].active = "yes" \/ ReadComment(z, z.list[i]) = "iocage"}

\* self.pool
PoolGet(z, isroot, activate, skip) ==
    \* What the pool property yields: the pools, the outcome and the pool
    \* returned, by name.
    LET PoolResult(z_, o, name) ==
            [z |-> z_, out |-> o, pool |-> name]
    IN  \* The branch for no counted pool.  activate: "activate" is an argument of
        \* the command; skip: IOCAGE_SKIP is TRUE.
        LET ActivateFirst(z_, isroot_, activate_, skip_) ==
                IF activate_ THEN PoolResult(z_, "returned", None)
                ELSE IF Len(z_.list) = 0
                THEN PoolResult(z_, LogitException(Cur, "NoPools", NoRecord).out, None)
                ELSE IF ~isroot_ \/ skip_
                THEN PoolResult(z_, LogitException(Cur, "PoolNotActivated", NoRecord).out,
                                None)
                ELSE IF z_.list[1].name = "freenas-boot" /\ Len(z_.list) < 2
                THEN PoolResult(z_, "RuntimeError", None)
                ELSE PoolResult(z_, "NameError", None)
        IN  \* _upgrade_pool(pool)
            LET UpgradePool(z_, isroot_, name) ==
                    IF ~isroot_ THEN PoolResult(z_, "RuntimeError", None)
                    ELSE PoolResult(
                             [z_ EXCEPT !.list =
                                 [i \in 1..Len(z_.list) |->
                                     IF z_.list[i].name = name THEN Pool(name, "yes", "-")
                                     ELSE z_.list[i]]],
                             "returned", None)
            IN  LET CountedAsOld(z_) ==
                        {i \in CountedPools(z_) : z_.list[i].active # "yes"}
                IN  LET counted == CountedPools(z)
                        match == Cardinality(counted)
                        last == CHOOSE i \in counted : \A j \in counted : j <= i
                        _dataset == z.list[last].name
                        pool == z.list[Len(z.list)]
                    IN  IF match = 1
                        THEN IF CountedAsOld(z) # {}
                             THEN LET u == UpgradePool(z, isroot, _dataset)
                                  IN  IF u.out # "returned" THEN u
                                      ELSE PoolResult(u.z, "returned", pool.name)
                             ELSE PoolResult(z, "returned", pool.name)
                        ELSE IF match >= 2 THEN PoolResult(z, "NameError", None)
                        ELSE ActivateFirst(z, isroot, activate, skip)

\* The lists of at most n pools with different names.
RECURSIVE PoolLists(_)
PoolLists(n) ==
    \* The names of the host's pools.
    LET PoolNames ==
            {PoolName, "zroot", "freenas-boot"}
    IN  IF n = 0 THEN {<<>>}
        ELSE PoolLists(n - 1) \cup
             {Append(l, Pool(name, active, comment)) :
                 l \in {k \in PoolLists(n - 1) : Len(k) = n - 1},
                 name \in PoolNames, active \in {"yes", "-"},
                 comment \in {"iocage", "-"}}

InitPool ==
    LET WellNamed(l) ==
            \A i, j \in 1..Len(l) : l[i].name = l[j].name => i = j
    IN  /\ root \in BOOLEAN
        /\ force = TRUE
        /\ stop = FALSE
        /\ running = {}
        /\ markers = {<<"releases", "11.2-RELEASE">>}
        /\ snaps = {}
        /\ fstab = [n \in {UUID} |-> <<UUID>>]
        /\ flat = NoFlat
        /\ props = PlainProps
        /\ ds = {UUID}
        /\ tds = {}
        /\ cfg = [n \in {UUID} |-> CurrentRecord(UUID)]
        /\ InitObject
        /\ InitFile(AbsentFile)
        /\ cli = FALSE
        /\ prop = NoProp
        /\ sets = 0
        /\ \E l \in {k \in PoolLists(MaxPools) : WellNamed(k)}, b \in BOOLEAN :
              zpools = [list |-> l, byobject |-> b]

\* A read of self.pool by a command.
PoolCall(activate, skip) ==
    /\ \E r \in {PoolGet(zpools, root, activate, skip)} :
          /\ zpools' = r.z
          /\ out' = r.out
          /\ ret' = [pool |-> r.pool]
    /\ op' = "pool"
    /\ prop' = <<IF activate THEN "activate" ELSE "",
                 IF skip THEN "TRUE" ELSE "FALSE">>
    /\ arg' = [pools |-> zpools.list]
    /\ UNCHANGED <<textfile, cli, sets, tds, root, stop, force, running,
                   markers, cfg, fstab, ds, snaps, flat, props, loaded, mem,
                   location, flags, calls, via, fresh, pending, retry>>

NextPool == \E activate, skip \in BOOLEAN : PoolCall(activate, skip)

SpecPool == InitPool /\ [][NextPool]_vars

(***************************************************************************)
(* Reads: self[key] and json_get_value(prop, default), between calls of    *)
(* json_set_value and rollbacks of config.json.                            *)
(***************************************************************************)

\* json_get_value(prop, default): the value, or for "all" the object; the
\* pool is looked up as no part of an activate command, IOCAGE_SKIP unset.
JsonGetValue(s, z, isroot, prop_, default) ==
    LET GetResult(s_, z_, o, val, rec) ==
            [s |-> s_, z |-> z_, out |-> o, val |-> val, rec |-> rec]
    IN  IF default /\ prop_ = "all" THEN GetResult(s, z, "returned", None, s.mem)
        ELSE IF ~default /\ prop_ \in {"pool", "iocroot"}
        THEN The({ IF r.out # "returned"
                   THEN GetResult(s, r.z, r.out, None, NoRecord)
                   ELSE GetResult(s, r.z, "returned",
                                  IF prop_ = "pool" THEN r.pool ELSE "/iocage",
                                  NoRecord) :
                   r \in {PoolGet(z, isroot, FALSE, FALSE)} })
        ELSE IF ~default /\ prop_ = "all"
        THEN GetResult(s, z, "Exception", None, NoRecord)
        ELSE The({ IF g.out # "returned"
                   THEN GetResult(g.s, z, g.out, None, NoRecord)
                   ELSE IF ~default /\ prop_ = "last_started" /\ g.val = "none"
                   THEN GetResult(g.s, z, "returned", "never", NoRecord)
                   ELSE GetResult(g.s, z, "returned", g.val, NoRecord) :
                   g \in {GetItem(s, prop_, 0)} })

\* self[key]
GetItemCall(key) ==
    /\ \E g \in {GetItem(CurSet, key, 0)} :
          /\ BecomesSet(g.s)
          /\ out' = g.out
          /\ flags' = IF g.out = "returned" THEN <<g.val>> ELSE NoFlags
    /\ op' = "get"
    /\ prop' = <<key, "getitem">>
    /\ arg' = IF HasFile(cfg, location) THEN cfg[location] ELSE NoRecord
    /\ ret' = NoRecord
    /\ fresh' = ~loaded
    /\ UNCHANGED <<textfile, cli, sets, zpools, root, stop, force, running,
                   markers, flat, pending, retry>>

\* json_get_value(prop, default)
JsonGetValueCall(prop_, default) ==
    /\ \E g \in {JsonGetValue(CurSet, zpools, root, prop_, default)} :
          /\ BecomesSet(g.s)
          /\ zpools' = g.z
          /\ out' = g.out
          /\ flags' = IF g.out = "returned" /\ g.rec = NoRecord
                      THEN <<g.val>> ELSE NoFlags
          /\ ret' = g.rec
    /\ op' = "get"
    /\ prop' = <<prop_, IF default THEN "default" ELSE "user">>
    /\ arg' = IF HasFile(cfg, location) THEN cfg[location] ELSE NoRecord
    /\ fresh' = ~loaded
    /\ UNCHANGED <<textfile, cli, sets, root, stop, force, running, markers,
                   flat, pending, retry>>

NextGet ==
    \* The older records a rollback puts back.
    LET RolledBack ==
            {OldRecord("13", "11.2-RELEASE-p4", UUID, UUID, UUID),
             OldRecord("13", "11.2-RELEASE-p4", TagName, UUID, UUID)}
    IN  \* The properties json_set_value is called with between the reads.
        LET SetInputsGet ==
                {<<"notes", "hello">>, <<"boot", "on">>, <<"boot", "maybe">>,
                 <<"host_hostname", "myhost">>, <<"quota", "10G">>, <<"foo", "bar">>,
                 <<"template", "yes">>}
        IN  \* The keys the object is read for and never set to.
            LET ReadKeys ==
                    {"exec_fib", "last_started", "vnet", "nokey", "host_hostuuid", "release",
                     "sysvmsg"}
            IN  \/ \E key \in ReadKeys : GetItemCall(key)
                \/ \E prop_ \in ReadKeys \cup {"all", "pool", "iocroot"},
                      default \in BOOLEAN : JsonGetValueCall(prop_, default)
                \/ \E p \in SetInputsGet, ok \in BOOLEAN : JsonSetValueCall(p[1], p[2], ok)
                \/ \E rec \in RolledBack : UUID \in ds /\ Rollback(rec)

SpecGet == InitSet /\ [][NextGet]_vars

(***************************************************************************)
(* iocage_lib.ioc_common.retrieve_ip4_for_jail(conf, jail_running), for a  *)
(* running jail with dhcp on, called by root: the listing of the active    *)
(* jails first, `jexec ... ifconfig epair0b inet` otherwise.               *)
(***************************************************************************)

\* f"ioc-{uuid}"
JlsKey(n) == <<"ioc-", n>>

\* IFCONFIG_OUT of the unit test as lines of words, for the address a; the
\* ether line is there or not.
IfconfigOut(a, ether) ==
    <<<<"epair0b:", "flags=8943<UP>", "mtu", "1500">>>>
    \o (IF ether THEN <<<<"ether", "02:ff:60:00:01:02">>>> ELSE <<>>)
    \o <<<<"inet", a, "netmask", "0xffffff00", "broadcast", "192.168.0.255">>>>

\* The address of the first inet line.
InetAddress(lines) ==
    LET i == CHOOSE n \in 1..Len(lines) :
                 /\ lines[n][1] = "inet"
                 /\ \A m \in 1..(n - 1) : lines[m][1] # "inet"
    IN  lines[i][2]

\* A variant that asks the jail whatever the listing holds.
RetrieveIp4ForJail_AlwaysJexec(conf, listing, ifout) ==
    [calls |-> <<<<"jexec", JlsKey(conf["host_hostuuid"]), "ifconfig",
                   "epair0b", "inet">>>>,
     full_ip4 |-> <<"epair0b", "|", InetAddress(ifout)>>,
     short_ip4 |-> "DHCP"]

\* retrieve_ip4_for_jail(conf, True) with get_active_jails() = listing and
\* ifout what the jexec prints: the result and the subprocesses run.
RetrieveIp4ForJail(conf, listing, ifout) ==
    LET name == JlsKey(conf["host_hostuuid"])
    IN  IF name \in DOMAIN listing /\ "ip4.addr" \in DOMAIN listing[name]
        THEN [calls |-> <<>>, full_ip4 |-> listing[name]["ip4.addr"],
              short_ip4 |-> "DHCP"]
        ELSE [calls |-> <<<<"jexec", name, "ifconfig", "epair0b", "inet">>>>,
              full_ip4 |-> <<"epair0b", "|", InetAddress(ifout)>>,
              short_ip4 |-> "DHCP"]

\* A running jail of root's host, with dhcp on.
InitIp ==
    /\ root = TRUE
    /\ force = TRUE
    /\ stop = FALSE
    /\ running = {UUID}
    /\ markers = {<<"releases", "11.2-RELEASE">>}
    /\ snaps = {}
    /\ fstab = [n \in {UUID} |-> <<UUID>>]
    /\ flat = NoFlat
    /\ props = PlainProps
    /\ ds = {UUID}
    /\ cfg = [n \in {UUID} |-> Put(CurrentRecord(UUID), "dhcp", "on")]
    /\ InitObject
    /\ InitFile(AbsentFile)
    /\ InitHost

\* retrieve_ip4_for_jail(conf, True)
RetrieveIp4Call(conf, listing, ifout) ==
    /\ \E r \in {RetrieveIp4ForJail(conf, listing, ifout)} :
          /\ ret' = [full_ip4 |-> r.full_ip4, short_ip4 |-> r.short_ip4]
          /\ calls' = r.calls
    /\ op' = "ip4"
    /\ out' = "returned"
    /\ arg' = [conf |-> conf, ifconfig |-> ifout, jails |-> listing]
    /\ UNCHANGED <<textfile, host, root, stop, force, running, markers, cfg,
                   fstab, ds, snaps, flat, props, loaded, mem, location, flags,
                   via, fresh, pending, retry>>

NextIp ==
    \* What get_active_jails() may return: each jail is absent or listed with
    \* an ip4.addr.
    LET ActiveJails ==
            \* The values of ip4.addr in the listing, interface|address.
            LET ListedAddrs ==
                    {<<"vnet0", "|", "192.168.0.10/24">>, <<"vnet0", "|", "10.0.0.7/8">>}
            IN  UNION {[{JlsKey(n) : n \in S} -> {[k \in {"ip4.addr"} |-> a] : a \in ListedAddrs}] :
                           S \in SUBSET {"testjail", UUID}}
    IN  LET IfconfigOuts ==
                {IfconfigOut(a, e) : a \in {"192.168.0.10", "10.0.0.7", "172.16.3.4"},
                                     e \in BOOLEAN}
        IN  \* CONF of the unit test, for the jail n.
            LET DhcpConf(n) ==
                    [k \in {"dhcp", "interfaces", "host_hostuuid"} |->
                        CASE k = "dhcp" -> "on"
                          [] k = "interfaces" -> "vnet0:bridge0"
                          [] k = "host_hostuuid" -> n]
            IN  \* The jails that are asked about or listed.
                LET JailNames ==
                        {"testjail", UUID, TagName}
                IN  \E n \in JailNames, listing \in ActiveJails, ifout \in IfconfigOuts :
                        RetrieveIp4Call(DhcpConf(n), listing, ifout)

SpecIp == InitIp /\ [][NextIp]_vars

(***************************************************************************)
(* json_convert_from_zfs(uuid, skip) on a legacy jail whose storage may    *)
(* refuse one of the operations on the jailed dataset.                     *)
(***************************************************************************)
InitZfs ==
    /\ root \in BOOLEAN
    /\ force = FALSE
    /\ stop = FALSE
    /\ running = {}
    /\ markers = {<<"releases", "11.2-RELEASE">>}
    /\ cfg = [n \in {} |-> NoRecord]
    /\ snaps = {}
    /\ ds = {UUID}
    /\ fstab = [n \in {UUID} |-> <<UUID>>]
    /\ flat = NoFlat
    /\ \E p \in LegacyProps, j \in {"on", "off"}, f \in 0..4, d \in BOOLEAN :
          \* The jailed dataset is at root/data, at data, or nowhere; the
          \* storage can refuse an operation only on one that exists.
          /\ p.rootdata \/ f = 0
          /\ ~(p.rootdata /\ d)
          /\ props = [p EXCEPT !.data = d, !.jailed = j, !.failat = f]
    /\ InitObject
    /\ InitFile(AbsentFile)
    /\ InitHost

\* json_convert_from_zfs(uuid, skip)
JsonConvertFromZfsCall(skip) ==
    \E r \in {JsonConvertFromZfs(Cur, UUID, skip)} :
        /\ Becomes(r.s)
        /\ op' = "convert"
        /\ out' = r.out
        /\ arg' = NoRecord
        /\ ret' = r.conf
        /\ flags' = IF skip THEN <<"skip">> ELSE NoFlags
        /\ UNCHANGED <<textfile, host, root, stop, force, running, markers,
                       flat, fresh, pending, retry>>

NextZfs == \E skip \in BOOLEAN : JsonConvertFromZfsCall(skip)

SpecZfs == InitZfs /\ [][NextZfs]_vars

(***************************************************************************)
(* json_check_prop on the defaults: the hardcoded ones, and the values the *)
(* upgrade ladder of json_check_config assigns to a key that is missing.   *)
(***************************************************************************)
\* The keys the ladder defaults that are keys of the catalog, each with the
\* value assigned when the record lacks it.
LadderDefaults ==
    {<<"sysvmsg", "new">>, <<"sysvsem", "new">>, <<"sysvshm", "new">>,
     <<"comment", "none">>, <<"host_time", "yes">>, <<"depends", "none">>,
     <<"dhcp", "off">>, <<"bpf", "no">>, <<"vnet_interfaces", "none">>,
     <<"hostid_strict_check", "off">>, <<"allow_mlock", "0">>,
     <<"vnet_default_interface", "none">>, <<"allow_tun", "0">>}

NextDefaults ==
    \/ \E key \in DOMAIN catalog \cap DOMAIN global_default_properties :
          \E conf \in PropRecords :
             JsonCheckPropCall(key, global_default_properties[key], conf, FALSE)
    \/ \E p \in LadderDefaults : \E conf \in PropRecords :
          JsonCheckPropCall(p[1], p[2], conf, FALSE)

SpecDefaults == InitSet /\ [][NextDefaults]_vars

(***************************************************************************)
(* json_load of a legacy jail, configured by the properties of its dataset *)
(* alone, under an iocroot mounted at /iocage or at /poolname/iocage.      *)
(***************************************************************************)
InitPath ==
    /\ root \in BOOLEAN
    /\ force \in BOOLEAN
    /\ stop = FALSE
    /\ running \in SUBSET {UUID}
    /\ markers = {<<"releases", "11.2-RELEASE">>}
    /\ cfg = [n \in {} |-> NoRecord]
    /\ snaps = {}
    /\ ds = {UUID}
    /\ fstab = [n \in {UUID} |-> <<UUID>>]
    /\ flat = NoFlat
    /\ \E p \in LegacyProps, m \in {<<"", "iocage">>, <<"", "poolname", "iocage">>},
          d \in BOOLEAN :
          /\ ~(p.rootdata /\ d)
          /\ props = [p EXCEPT !.mount = m, !.data = d]
    /\ InitObject
    /\ InitFile(AbsentFile)
    /\ InitHost

NextPath == JsonLoadCall

SpecPath == InitPath /\ [][NextPath]_vars

(***************************************************************************)
(* Properties.                                                             *)
(***************************************************************************)
\* The record holds CONFIG_VERSION "14" and every key of the ladder.
IsCurrent(c) ==
    /\ Get(c, "CONFIG_VERSION", None) = CONFIG_VERSION
    /\ LadderKeys \subseteq DOMAIN c

\* The record has a release whose freebsd-version file exists.
HasValidRelease(c) ==
    /\ Has(c, "release")
    /\ <<"releases", StripPatch(c["release"])>> \in markers

\* The record has a tag that asks for a genuine rename of the jail uuid.
AsksRename(c, uuid) ==
    /\ Has(c, "tag")
    /\ c["tag"] # uuid
    /\ ~IsDateLike(c["tag"])

\* C1: whenever json_load returns, the record in memory is at the current
\* version and holds every key of the upgrade ladder.
C1_LoadedRecordIsCurrent ==
    (op = "load" /\ out = "returned") => IsCurrent(mem)

\* C2: json_load of a not yet loaded record returns, for a privileged caller
\* and a stored record of an older version (or none) that has a release with
\* a valid marker and asks for no rename.
C2_UpgradeOnLoadReturns ==
    (/\ op = "load" /\ fresh /\ root
     /\ arg # NoRecord
     /\ Get(arg, "CONFIG_VERSION", None) \in (Versions \ {CONFIG_VERSION})
     /\ HasValidRelease(arg)
     /\ ~Has(arg, "tag"))
    => out = "returned"

\* C3: json_check_config given the record it has just returned for a record
\* of an older version with a valid release marker returns that record, equal
\* in every key.
C3_UpgradeIdempotent ==
    [][(/\ op = "check" /\ out = "returned" /\ ~pending
        /\ Get(arg, "CONFIG_VERSION", None) \in (Versions \ {None, CONFIG_VERSION})
        /\ HasValidRelease(arg)
        /\ op' = "check"
        /\ arg' = ret)
       => (out' = "returned" /\ ret' = arg')]_vars

\* C4: the value read for host_hostuuid from the loaded record is the name
\* of a dataset tree of the jail that exists.
C4_HostUuidNamesDataset ==
    loaded => ReadKey(mem, "host_hostuuid") \in ds

\* C5: json_check_config of a record that asks for a rename, for a running
\* jail under the stop-first policy, returns the record with host_hostuuid,
\* host_hostname and jail_zfs_dataset as given and persists nothing.
C5_StopFirstReturnsUnmigrated ==
    (/\ op = "check" /\ root /\ force /\ stop /\ loaded
     /\ HasValidRelease(arg)
     /\ AsksRename(arg, ReadKey(mem, "host_hostuuid"))
     /\ JlsState(ReadKey(mem, "host_hostuuid")))
    => /\ out = "returned"
       /\ \A k \in {"host_hostuuid", "host_hostname", "jail_zfs_dataset"} :
             Get(ret, k, None) = Get(arg, k, None)
       /\ calls = <<>>

\* C6: a json_load invoked with the jail stopped, after an upgrade returned
\* early because the jail was running, renames the jail and leaves a record
\* of the current version under the tag.
C6_RetryConverges ==
    (/\ op = "load" /\ retry /\ root /\ force
     /\ HasValidRelease(arg)
     /\ AsksRename(arg, UUID))
    => /\ out = "returned"
       /\ arg["tag"] \in ds
       /\ HasFile(cfg, arg["tag"])
       /\ IsCurrent(cfg[arg["tag"]])

\* C7: json_migrate_uuid_to_tag invoked when the snapshot <uuid tree>@<tag>
\* exists and nothing is cloned yet completes the rename.
C7_ResumeAfterSnapshot ==
    [][(/\ op' = "migrate"
        /\ AsksRename(arg', UUID)
        /\ <<UUID, arg'["tag"]>> \in snaps
        /\ arg'["tag"] \notin ds
        /\ UUID \notin running)
       => /\ out' = "returned"
          /\ arg'["tag"] \in ds'
          /\ UUID \notin ds'
          /\ <<UUID, arg'["tag"]>> \notin snaps'
          /\ Get(ret', "host_hostuuid", None) = arg'["tag"]]_vars

\* C8: json_migrate_uuid_to_tag for a running jail, a tag that is no date
\* and the stop-first policy off fails with the jail-is-running error, makes
\* no storage call and leaves the record as given.
C8_RunningWithoutDeferralFails ==
    (/\ op = "migrate"
     /\ AsksRename(arg, UUID)
     /\ JlsState(UUID)
     /\ ~stop)
    => /\ out = "JailRunning"
       /\ calls = <<>>
       /\ ret = arg

C8_Witness ==
    /\ op = "migrate"
    /\ AsksRename(arg, UUID)
    /\ JlsState(UUID)
    /\ ~stop
    /\ out = "JailRunning"

\* C9 as stated: json_migrate_uuid_to_tag given a date-like tag makes no
\* storage call and returns the record with its tag set to the identifier
\* and nothing else changed.
C9_DateTagSetsTag ==
    (op = "migrate" /\ arg["tag"] \in {DateTag, DateTagLegacy})
    => /\ out = "returned"
       /\ calls = <<>>
       /\ ret = Put(arg, "tag", UUID)

\* C9 as amended: json_migrate_uuid_to_tag given a date-like tag, whether
\* or not the jail is running, makes no storage call and returns the record
\* with host_hostuuid set to the identifier and nothing else changed: the
\* tag key keeps the date; the results are (record, False, True).
C9_DateTagKeepsName ==
    (op = "migrate" /\ arg["tag"] \in {DateTag, DateTagLegacy})
    => /\ out = "returned"
       /\ calls = <<>>
       /\ ret = Put(arg, "host_hostuuid", UUID)
       /\ ret["tag"] = arg["tag"]
       /\ flags = <<FALSE, TRUE>>

C9_Witness ==
    /\ op = "migrate"
    /\ arg["tag"] = DateTagLegacy
    /\ JlsState(UUID)
    /\ out = "returned"
    /\ ret["tag"] = DateTagLegacy

\* C10: the third result of json_migrate_uuid_to_tag is false exactly when
\* it renamed the jail, and true only for a date-like tag.
C10_DateFlagTellsRename ==
    (op = "migrate" /\ out = "returned")
    => /\ (flags[2] = FALSE) <=>
             (arg["tag"] \in ds /\ Get(ret, "host_hostuuid", None) = arg["tag"]
              /\ flags[1] = FALSE)
       /\ (flags[2] = TRUE) => IsDateLike(arg["tag"])

\* The importer or the read e is part of what the last operation did.
InVia(e) == \E i \in 1..Len(via) : via[i] = e

\* The dataset has the legacy property org.freebsd.iocage:host_hostuuid.
HasLegacyProperty == PropsNamed(props.items, "host_hostuuid") # {}

C13_NoPartialPersistence ==
    (op = "load" /\ arg = NoRecord /\ out # "returned")
    => ~HasFile(cfg, UUID)

\* C14: json_check_config fails and persists nothing for a record without
\* release and for one whose release has neither freebsd-version file; with
\* a release and one of the files it does not fail for either reason.
C14_ReleaseAndMarkerRequired ==
    (op = "check")
    => /\ ~Has(arg, "release") => (out # "returned" /\ calls = <<>>)
       /\ (/\ Has(arg, "release")
           /\ <<"releases", StripPatch(arg["release"])>> \notin markers
           /\ <<"templates", ReadKey(mem, "host_hostuuid")>> \notin markers)
          => (out # "returned" /\ calls = <<>>)
       /\ (/\ Has(arg, "release")
           /\ \/ <<"releases", StripPatch(arg["release"])>> \in markers
              \/ loaded /\ <<"templates", ReadKey(mem, "host_hostuuid")>>
                              \in markers)
          => out \notin {"RuntimeError", "NameError: iocage"}

C14_Witness ==
    /\ op = "check"
    /\ Has(arg, "release")
    /\ <<"releases", StripPatch(arg["release"])>> \notin markers
    /\ <<"templates", ReadKey(mem, "host_hostuuid")>> \notin markers
    /\ out = "RuntimeError"
    /\ calls = <<>>

\* C15: without euid 0 a load that needs an importer or the upgrade fails
\* before a legacy source is read and before anything is persisted, and
\* json_check_config fails at once; a record at the current version loads.
C15_PrivilegeComesFirst ==
    ~root
    => /\ (op = "load" /\ arg = NoRecord)
          => /\ out # "returned"
             /\ calls = <<>>
             /\ ~InVia(<<"read", "config">>)
             /\ ~InVia(<<"read", "properties">>)
             /\ ~HasFile(cfg, UUID)
       /\ (op = "load" /\ arg # NoRecord
             /\ Get(arg, "CONFIG_VERSION", None) # CONFIG_VERSION)
          => (out = "RootRequired" /\ calls = <<>>)
       /\ (op = "check") => (out = "RootRequired" /\ calls = <<>> /\ ret = arg)
       /\ (op = "load" /\ arg # NoRecord
             /\ Get(arg, "CONFIG_VERSION", None) = CONFIG_VERSION)
          => out = "returned"

C15_Witness ==
    /\ ~root
    /\ op = "load"
    /\ arg = NoRecord
    /\ flat.exists
    /\ InVia(<<"json_convert_from_ucl">>)
    /\ out = "RuntimeError: root"

\* C16: with force off, a json_load that needs a legacy import, or whose
\* record has a tag other than the uuid, fails with the renaming-required
\* error before an importer is entered and before anything is persisted.
C16_ForceGateBlocks ==
    (/\ op = "load"
     /\ ~force
     /\ \/ arg = NoRecord /\ (flat.exists \/ HasLegacyProperty)
        \/ /\ arg # NoRecord
           /\ root
           /\ Get(arg, "CONFIG_VERSION", None) # CONFIG_VERSION
           /\ HasValidRelease(arg)
           /\ Has(arg, "tag")
           /\ arg["tag"] # UUID)
    => (out = "RenameRequired" /\ calls = <<>> /\ via = <<>>)

\* The table of sources of json_load, for a load that gate lets pass.
SourceTable(gate) ==
    /\ arg # NoRecord => via = <<>>
    /\ (arg = NoRecord /\ flat.exists /\ gate)
       => /\ InVia(<<"json_convert_from_ucl">>)
          /\ ~InVia(<<"json_convert_from_zfs">>)
    /\ (arg = NoRecord /\ ~flat.exists /\ HasLegacyProperty /\ gate)
       => /\ InVia(<<"json_convert_from_zfs">>)
          /\ ~InVia(<<"json_convert_from_ucl">>)
    /\ (arg = NoRecord /\ ~flat.exists /\ ~HasLegacyProperty)
       => (out = "MissingConfiguration" /\ calls = <<>> /\ via = <<>>)
    /\ (out = "returned" /\ arg # NoRecord
          /\ Get(arg, "CONFIG_VERSION", None) # CONFIG_VERSION)
       => {"sysvmsg", "sysvsem", "sysvshm"} \subseteq DOMAIN mem

\* C17 as stated: which importer json_load runs depends on the three
\* files and properties only.
C17_SourceSelection ==
    (op = "load") => SourceTable(TRUE)

\* C17 as amended: with force on the importer is chosen by the table; with
\* force off a load without config.json that has a legacy source fails
\* with the renaming-required error and enters no importer.
C17_SourceSelectionWithForce ==
    (op = "load")
    => /\ SourceTable(force)
       /\ (arg = NoRecord /\ (flat.exists \/ HasLegacyProperty) /\ ~force)
          => (out = "RenameRequired" /\ via = <<>> /\ calls = <<>>)

C17_Witness ==
    /\ op = "load"
    /\ arg = NoRecord
    /\ flat.exists
    /\ HasLegacyProperty
    /\ force
    /\ InVia(<<"json_convert_from_ucl">>)

\* C18: the read json_load makes after an importer has written config.json
\* finds that file.
C18_ImportThenRead ==
    (/\ op = "load"
     /\ arg = NoRecord
     /\ \E i \in 1..Len(calls) : calls[i] = <<"write_config", UUID>>)
    => out # "FileNotFoundError"

\* C19: the record json_convert_from_ucl writes has the keys of the lines
\* that contain "=" and no other.
C19_LinesWithoutEqualsIgnored ==
    (op = "load" /\ arg = NoRecord /\ InVia(<<"read", "config">>)
       /\ HasFile(cfg, UUID))
    => DOMAIN cfg[UUID] =
          {UclKey(flat.lines[i]) :
             i \in {j \in 1..Len(flat.lines) :
                       \E k \in 1..Len(flat.lines[j]) :
                          flat.lines[j][k] = "="}}

\* C20: the record json_convert_from_zfs writes has no key hostname, and
\* its host_hostname is the hostname property when that differs from the
\* host_hostname property and host_hostname is the uuid, and the
\* host_hostname property otherwise, in whatever order they are enumerated.
C20_HostnamePromotion ==
    (op = "load" /\ arg = NoRecord /\ InVia(<<"read", "properties">>)
       /\ HasFile(cfg, UUID))
    => LET items == props.items
           hn == items[CHOOSE i \in PropsNamed(items, "host_hostname") : TRUE]
           hs == PropsNamed(items, "hostname")
           h  == items[CHOOSE i \in hs : TRUE]
       IN  /\ ~Has(cfg[UUID], "hostname")
           /\ cfg[UUID]["host_hostname"] =
                 IF hs # {} /\ h.value # hn.value /\ hn.value = UUID
                 THEN h.value ELSE hn.value

\* C12: whenever config.json is read, before, during or after a json_write
\* and after a crash of the writer, the read gives what the file held when
\* the write began or the record being written, never a decoding error.
C12_ReadersSeeWholeFiles ==
    seen # NotRead
    => /\ seen.out # "JSONDecodeError"
       /\ \/ seen = JsonReadText(writer.before)
          \/ /\ writer.data # NoRecord
             /\ seen = [out |-> "returned", conf |-> writer.data]

C12_Witness ==
    /\ writer.pc = "writing"
    /\ writer.left # <<>>
    /\ Len(disk[TempPath].text) >= 2
    /\ writer.before.exists
    /\ seen.out = "returned"
    /\ seen.conf = Load(writer.before.text)
    /\ seen.conf # writer.data

\* The keys the ladder fills in with a default when they are missing.
DefaultedKeys ==
    {"sysvmsg", "sysvsem", "sysvshm", "basejail", "comment", "dhcp", "bpf",
     "vnet_interfaces", "hostid_strict_check", "allow_mlock"}

\* C21: a record that json_check_config or json_load returns has, for every
\* defaulted key the record it was given holds, the value given.
C21_DefaultsKeepPresentValues ==
    (op \in {"load", "check"} /\ out = "returned" /\ arg # NoRecord)
    => \A k \in DefaultedKeys : Has(arg, k) => Get(ret, k, None) = arg[k]

\* The value ends in M, G or T, in either case.
EndsInMGT(value) ==
    LET cs == Chars(value)
    IN  Len(cs) > 0 /\ cs[Len(cs)] \in {"M", "G", "T", "m", "g", "t"}

\* The dataset of the instance a record describes.
DatasetKind(conf) == IF Get(conf, "template", None) = "yes" THEN "templates"
                     ELSE "jails"

\* C22: json_check_prop for the key quota fails with the invalid-value error
\* and sets no dataset property when the value is not "none" and does not
\* end in M, G or T in either case; otherwise, the instance's dataset being
\* under templates/ or jails/ as the template key of the record says, it
\* succeeds, sets quota on that dataset and nothing else, and returns the
\* record it was given unchanged.
C22_QuotaValidated ==
    (op = "prop" /\ prop[1] = "quota") =>
        IF prop[2] # "none" /\ ~EndsInMGT(prop[2])
        THEN out = "InvalidValue" /\ calls = <<>>
        ELSE UUID \in (IF DatasetKind(arg) = "templates" THEN tds ELSE ds)
             => /\ out = "returned"
                /\ calls = <<<<"zfs_set_property", DatasetKind(arg), UUID,
                               "quota", prop[2]>>>>
                /\ ret = arg
                /\ flags = <<prop[2]>>

\* C22: the quota of a template has been set to 10G.
C22_Witness ==
    /\ op = "prop"
    /\ prop = <<"quota", "10G">>
    /\ out = "returned"
    /\ calls = <<<<"zfs_set_property", "templates", UUID, "quota", "10G">>>>

\* C23: after a successful json_set_value of a key of the filesystem
\* properties the value has been set on the dataset and config.json holds
\* the record it held before the call, without that key.
C23_ZfsKeysNotInJson ==
    (op = "set" /\ out = "returned" /\ prop[1] \in zfs_props) =>
        /\ \E n \in 1..Len(calls) :
              /\ calls[n][1] = "zfs_set_property"
              /\ calls[n][4] = prop[1]
              /\ calls[n][5] = prop[2]
        /\ cfg[location] = arg
        /\ ~Has(cfg[location], prop[1])

\* C24: a json_set_value that fails because the key is unknown or the value
\* is invalid leaves config.json and the record in memory, the key being set
\* included, as they were before the call.
C24_RejectedWriteChangesNothing ==
    [][(op' = "set" /\ out' \in {"UnknownProperty", "InvalidValue"}) =>
          /\ cfg' = cfg
          /\ loaded => mem' = mem]_vars

\* C25: a json_set_value of a key that is neither in the catalog nor a
\* filesystem property fails with the unknown-property error when the caller
\* is the command line, or when the record did not hold the key before the
\* call, and config.json is left as it was.
C25_UnknownKeysRejected ==
    (/\ op = "set"
     /\ prop[1] \notin zfs_props \cup DOMAIN catalog
     /\ arg # NoRecord
     /\ cli \/ ~Has(arg, prop[1])) =>
        out = "UnknownProperty" /\ cfg[location] = arg

\* The value is a member of the enumerated rule of the key; for priority,
\* the decimal form of a number from 1 to 99.
RuleMember(key, value) ==
    CASE key \in {"boot", "dhcp", "jail_zfs", "vnet"} -> value \in {"off", "on"}
      [] key \in {"allow_mlock", "allow_raw_sockets", "allow_mount_zfs"} ->
           value \in {"0", "1"}
      [] key = "template" -> value \in {"no", "yes"}
      [] key = "priority" ->
           LET cs == Chars(value)
           IN  /\ Len(cs) \in {1, 2}
               /\ \A i \in 1..Len(cs) : cs[i] \in Digit
               /\ cs[1] # "0"

\* C26: for a key whose rule is an enumerated set json_check_prop succeeds
\* if and only if the value is a member of the set; a value that contains a
\* member is rejected with the invalid-value error.
C26_EnumeratedRules ==
    (op = "prop" /\ prop[1] \in {"boot", "allow_mlock", "template", "priority"})
        => IF RuleMember(prop[1], prop[2]) THEN out = "returned"
           ELSE out = "InvalidValue"

\* Values of two well-formed and different addresses.
TwoMacs ==
    {"02:ff:60:00:01:01,02:ff:60:00:01:02",
     "02:ff:60:00:01:01 02:ff:60:00:01:02"}

\* Values that are not two well-formed and different addresses: a word, one
\* address, one address twice, three addresses, an address with two
\* different separators.
NotTwoMacs ==
    {"string", "02:ff:60:00:01:01", "02:ff:60:00:01:01,02:ff:60:00:01:01",
     "02:ff:60:00:01:01,02:ff:60:00:01:02,02ff60000103",
     "02:ff-60:00:01:01,02:ff:60:00:01:02"}

\* C27: json_check_prop for vnet0_mac accepts "none" and the empty value,
\* both returned as "none", and two different well-formed addresses, returned
\* with a space between them; every other value fails.
C27_MacPairs ==
    (op = "prop" /\ prop[1] = "vnet0_mac") =>
        /\ prop[2] \in {"none", ""} =>
              out = "returned" /\ flags = <<"none">>
        /\ prop[2] \in TwoMacs =>
              /\ out = "returned"
              /\ flags = <<"02:ff:60:00:01:01 02:ff:60:00:01:02">>
        /\ prop[2] \in NotTwoMacs => out = "InvalidValue"

\* C28: json_set_value of dhcp, of a key that starts with jail_zfs, or of
\* template, on a running jail, and of template while a jail cloned from it
\* is running, fails with the instance-running error, writes no config.json,
\* renames no dataset and sets no dataset property.
C28_RunningGuards ==
    (/\ op = "set"
     /\ prop[1] \in {"dhcp", "jail_zfs", "jail_zfs_dataset", "template"}
     /\ \/ UUID \in running
        \/ prop[1] = "template" /\ CloneName \in running) =>
        /\ out = "JailRunning"
        /\ calls = <<>>
        /\ cfg[location] = arg

\* The kernel's name of a key: "_" is ".", except after the first one of
\* allow_raw_sockets.
KernelName(key) ==
    CASE key = "allow_raw_sockets" -> "allow.raw_sockets"
      [] key = "allow_mount_zfs" -> "allow.mount.zfs"
      [] key = "allow_mlock" -> "allow.mlock"
      [] key = "host_hostname" -> "host.hostname"
      [] key = "ip4_addr" -> "ip4.addr"
      [] key = "jail_zfs" -> "jail.zfs"
      [] key = "jail_zfs_dataset" -> "jail.zfs.dataset"
      [] OTHER -> key

\* The kernel's jail parameters.
KernelParams ==
    {"allow.raw_sockets", "allow.mount.zfs", "host.hostname", "ip4.addr",
     "vnet"}

\* C29: in json_set_value the write of config.json comes before the jail -m
\* attempt; the attempt is made only on a running jail and for a key whose
\* translation is a kernel parameter; when it fails the call fails and
\* config.json holds the new value.
C29_LiveUpdateAfterWrite ==
    op = "set" =>
        /\ \A n \in 1..Len(calls) :
              calls[n][1] = "jail -m" =>
                  /\ \E m \in 1..(n - 1) : calls[m] = <<"write_config", UUID>>
                  /\ UUID \in running
                  /\ calls[n][2] = KernelName(prop[1])
                  /\ calls[n][2] \in KernelParams
                  /\ cfg[location][prop[1]] = calls[n][3]
        /\ out = "RuntimeError" =>
              /\ Len(calls) = 2
              /\ calls[1] = <<"write_config", UUID>>
              /\ calls[2][1] = "jail -m"
              /\ cfg[location][prop[1]] = calls[2][3]
              /\ mem[prop[1]] = calls[2][3]

\* C29: the jail -m of a running jail has failed after config.json was
\* written with the new host name.
C29_Witness ==
    /\ op = "set"
    /\ prop = <<"host_hostname", HostName>>
    /\ out = "RuntimeError"
    /\ calls = <<<<"write_config", UUID>>,
                 <<"jail -m", "host.hostname", HostName>>>>
    /\ cfg[location]["host_hostname"] = HostName

\* The pools marked for iocage before the call.
MarkedBefore ==
    {i \in 1..Len(arg.pools) :
        arg.pools[i].active = "yes" \/ arg.pools[i].comment = "iocage"}

\* C30: with exactly one pool marked (org.freebsd.ioc:active = yes, or the
\* comment iocage) the pool property returns that pool, wherever it is in
\* the list, and a pool marked by its comment gets org.freebsd.ioc:active =
\* yes; with two or more marked it fails and changes no property; with none
\* marked it activates the first pool unless told to skip.
C30_PoolSelection ==
    op = "pool" =>
        /\ (Cardinality(MarkedBefore) = 1 /\ root) =>
              \A i \in MarkedBefore :
                  /\ out = "returned"
                  /\ ret.pool = arg.pools[i].name
                  /\ zpools.list[i].active = "yes"
        /\ Cardinality(MarkedBefore) >= 2 =>
              out # "returned" /\ zpools.list = arg.pools
        /\ (/\ MarkedBefore = {}
            /\ Len(arg.pools) > 0
            /\ arg.pools[1].name # "freenas-boot"
            /\ root
            /\ prop = <<"", "FALSE">>) =>
              /\ out = "returned"
              /\ ret.pool = arg.pools[1].name
              /\ zpools.list[1].active = "yes"
\* The keys that are read, that no record of the jail holds and that
\* json_set_value is not called with.
OnlyRead == {"exec_fib", "last_started", "vnet", "nokey"}

\* Neither the object nor config.json holds a key that was only read.
NoReadKeyKept ==
    \A k \in OnlyRead :
        /\ ~Has(mem, k)
        /\ HasFile(cfg, location) => ~Has(cfg[location], k)

\* The last operation read, from a loaded record, a key the record lacks.
AbsentRead ==
    /\ op = "get"
    /\ loaded
    /\ prop[1] \in OnlyRead

\* C31: a read of a key that the record lacks returns the hardcoded default
\* of the key, and neither the object nor config.json holds a key that was
\* only read, whatever reads, json_set_value calls on other keys and
\* rollbacks came before.
C31_AbsentReadsGiveDefaults ==
    /\ NoReadKeyKept
    /\ (AbsentRead /\ Has(global_default_properties, prop[1]))
          => /\ out = "returned"
             /\ flags = <<global_default_properties[prop[1]]>>

\* C31: as above, where json_get_value without default gives "never" for a
\* last_started whose default is "none", and a read of a key that has no
\* default fails with KeyError.
C31_AbsentReadsAddNoKey ==
    /\ NoReadKeyKept
    /\ AbsentRead =>
          IF ~Has(global_default_properties, prop[1]) THEN out = "KeyError"
          ELSE /\ out = "returned"
               /\ flags = IF prop = <<"last_started", "user">> THEN <<"never">>
                          ELSE <<global_default_properties[prop[1]]>>

\* C31: exec_fib, which the record lacks, has been read as "0" after a
\* json_set_value of another key that wrote config.json.
C31_Witness ==
    /\ op = "get"
    /\ prop = <<"exec_fib", "user">>
    /\ flags = <<"0">>
    /\ sets = 1
    /\ Has(mem, "notes")
    /\ Has(cfg[location], "notes")
    /\ ~Has(mem, "exec_fib")

OldReleaseName(release) ==
    LET cs == Chars(StripPatch(release))
    IN  Len(cs) >= 4 /\ cs[4] = "-"

\* C33: a json_check_config that returns leaves the stored release and the
\* stored cloned_release (LEGACY_JAIL when there is none) in the record when
\* the first four characters of the stored release, its -pN suffix removed,
\* end with "-"; otherwise it leaves the host's release as release and the
\* stored release as cloned_release.
C33_ReleaseNormalized ==
    (op = "check" /\ out = "returned") =>
        IF OldReleaseName(arg["release"])
        THEN /\ ret["release"] = arg["release"]
             /\ ret["cloned_release"] = Get(arg, "cloned_release", "LEGACY_JAIL")
        ELSE /\ ret["release"] = "12.0-RELEASE-p3"
             /\ ret["cloned_release"] = arg["release"]

\* C33: the upgrade of a record of release 9.3-RELEASE without
\* cloned_release has returned.
C33_Witness ==
    /\ op = "check"
    /\ out = "returned"
    /\ arg["release"] = "9.3-RELEASE"
    /\ ~Has(arg, "cloned_release")
    /\ ret["release"] = "9.3-RELEASE"
    /\ ret["cloned_release"] = "LEGACY_JAIL"

\* The storage calls and text rewrites of one rename of uuid to tag, in the
\* stated order.
RenameSteps(uuid, tag) ==
    <<<<"zfs_set_property", uuid, "data", "jailed", "off">>,
      <<"snapshot", uuid, tag>>,
      <<"clone", uuid, tag>>,
      <<"promote", tag>>,
      <<"zfs_set_property", tag, "data", "jailed", "on">>,
      <<"rewrite", tag>>,
      <<"delete", uuid>>,
      <<"delete_snapshot", tag, tag>>>>

\* C34: a json_migrate_uuid_to_tag that is a genuine rename (the tag is no
\* date and not the uuid, the jail is stopped) runs the sub-steps in the
\* stated order, un-jail, snapshot, clone, promote, re-jail, rewrite,
\* delete of the old tree, delete of the snapshot, and then returns the
\* record with host_hostuuid set to the tag.
C34_RenameStepsInOrder ==
    (/\ op = "migrate"
     /\ AsksRename(arg, UUID)
     /\ UUID \notin running
     /\ <<UUID, arg["tag"]>> \notin snaps
     /\ arg["tag"] \notin ds)
    => /\ out = "returned"
       /\ calls = RenameSteps(UUID, arg["tag"])
       /\ Get(ret, "host_hostuuid", None) = arg["tag"]

C36_DataDatasetFollowsIdentity ==
    (/\ op = "check"
     /\ out = "returned"
     /\ Has(arg, "tag")
     /\ arg["tag"] # UUID)
    => /\ Has(ret, "host_hostuuid")
       /\ ret["jail_zfs_dataset"] = DataDataset(ret["host_hostuuid"])

\* What json_check_prop returns as the value of a key: the interface of the
\* default route for DEFAULT, spaces for commas, none for an empty vnet0_mac.
Normalized(key, value) ==
    CASE key = "ip4_addr" /\ value = "DEFAULT|10.0.0.2" -> "em0|10.0.0.2"
      [] key = "vnet0_mac" /\ value = "02:ff:60:00:01:01,02:ff:60:00:01:02" ->
             "02:ff:60:00:01:01 02:ff:60:00:01:02"
      [] key = "vnet0_mac" /\ value = "" -> "none"
      [] OTHER -> value

\* C37: after a json_set_value of ip4_addr or vnet0_mac that returned,
\* config.json and the object hold for the key the normalized value that
\* json_check_prop returns, not the value as given.
C37_PersistedValueIsNormalized ==
    (/\ op = "set"
     /\ out = "returned"
     /\ prop[1] \in {"ip4_addr", "vnet0_mac"})
    => /\ cfg[location][prop[1]] = Normalized(prop[1], prop[2])
       /\ mem[prop[1]] = Normalized(prop[1], prop[2])

\* C38: after json_convert_from_zfs returns with skip unset, the data dataset,
\* where it exists (at root/data or at data), does not have jailed=off unless
\* it had jailed=off before the call, whichever storage operation failed; with
\* skip set the importer sets no property and renames nothing.
C38_DataNeverLeftUnjailed ==
    [][(op' = "convert" /\ out' = "returned")
       => /\ (flags' = NoFlags /\ (props'.rootdata \/ props'.data)
               /\ props'.jailed = "off")
              => props.jailed = "off"
          /\ flags' # NoFlags
              => /\ props' = props
                 /\ \A i \in 1..Len(calls') :
                        calls'[i][1] \notin {"set_property", "rename"}]_vars

\* C39: every default is valid under its own rule: json_check_prop succeeds on
\* the hardcoded default of every key of the catalog that has one, and on
\* every value the upgrade ladder assigns to a key of the catalog.
C39_DefaultsAreValid ==
    (/\ op = "prop"
     /\ \/ /\ prop[1] \in DOMAIN catalog \cap DOMAIN global_default_properties
            /\ prop[2] = global_default_properties[prop[1]]
        \/ prop \in LadderDefaults)
    => out = "returned"

====
